---- MODULE Spec2Model ----
(***************************************************************************)
(* A model of ibis.common.patterns: the match contract                     *)
(* match(pattern, value, context) -> value | NoMatch with its shared       *)
(* mutable context, the logical combinators, Capture / Replace and the     *)
(* builders, the sequence matchers and the Object / Node matchers.         *)
(*                                                                         *)
(* A top-level call match(pat, value, context) is one action: it draws the *)
(* pattern, the value and the (empty or pre-seeded) context from bounded   *)
(* sets and records the result, the context after the call and the log of  *)
(* what the call did (sub-pattern evaluations, context writes, builder     *)
(* invocations), in the order the code does them.                          *)
(*                                                                         *)
(* The records of ibis.common.grounds live in instances: constructing,     *)
(* comparing, hashing, copying and reducing a record are actions too.      *)
(***************************************************************************)
EXTENDS Integers, Sequences, FiniteSets

VARIABLES pc, op, given, pat, value, seed, ctx, res, log, instances

vars == <<pc, op, given, pat, value, seed, ctx, res, log, instances>>

(***************************************************************************)
(* Bounds of the model.                                                    *)
(***************************************************************************)
\* the longest input sequence drawn for the sequence matchers
MaxLen == 3
\* the integers drawn as input values are 0 .. MaxInt
MaxInt == 2
\* the most instances the store of records holds
MaxInstances == 5
\* the depth of the deepest tree drawn for the tree searches, a single
\* node having depth 0
MaxDepth == 2

\* how deep the annotations drawn for from_typehint nest
MaxNesting == 2

(***************************************************************************)
(* Python values.  Every value is a record of one shape; tag tells the     *)
(* runtime type, n an integer payload (the integer itself, or the identity *)
(* of an object), s a string payload (the string itself, the class of an   *)
(* object, the kind of a raised error), items the elements of a container  *)
(* or the constructor arguments of an object in declared order.            *)
(***************************************************************************)
Val(tag, n, s, items) == [tag |-> tag, n |-> n, s |-> s, items |-> items]

NoMatch == Val("nomatch", 0, "", <<>>)

None == Val("none", 0, "", <<>>)

IntV(k) == Val("int", k, "", <<>>)

StrV(t) == Val("str", 0, t, <<>>)

ListV(xs) == Val("list", 0, "", xs)

TupleV(xs) == Val("tuple", 0, "", xs)

ObjV(id, cls, args) == Val("obj", id, cls, args)

PyBool(b) == Val("bool", IF b THEN 1 ELSE 0, "", <<>>)

\* an exception leaving the call: it propagates through every caller that
\* does not catch its kind
Raise(kind) == Val("raise", 0, kind, <<>>)

IsRaise(v) == v.tag = "raise"

\* a key the context does not hold
Unbound == Val("unbound", 0, "", <<>>)

\* Python's ==, by runtime type: containers elementwise, records by type and
\* constructor arguments, everything else by value
RECURSIVE PyEq(_, _)
PyEq(a, b) ==
    IF a.tag # b.tag THEN FALSE
    ELSE IF a.tag \in {"list", "tuple"}
         THEN /\ Len(a.items) = Len(b.items)
              /\ \A i \in 1..Len(a.items) : PyEq(a.items[i], b.items[i])
    ELSE IF a.tag = "obj"
         THEN /\ a.s = b.s
              /\ Len(a.items) = Len(b.items)
              /\ \A i \in 1..Len(a.items) : PyEq(a.items[i], b.items[i])
    ELSE a = b

\* isinstance(value, type)
IsInstance(v, typ) ==
    IF v.tag = "obj" THEN v.s = typ ELSE v.tag = typ

\* ibis.util.is_iterable: an iterable that is not a string
IsIterable(v) == v.tag \in {"list", "tuple"}

(***************************************************************************)
(* The context: the capture keys and the reserved current-value key `_`.   *)
(***************************************************************************)
Keys == {"x", "y", "_"}

\* the reserved variable `_`
Underscore == "_"

EmptyContext == [k \in Keys |-> Unbound]

\* context[key] = v
CtxSet(c, key, v) == [c EXCEPT ![key] = v]

(***************************************************************************)
(* What is threaded through one top-level match: the context and the log.  *)
(* heap is the identity the next constructed object gets.                  *)
(***************************************************************************)
Ev(ev, path, key, val) == [ev |-> ev, path |-> path, key |-> key, val |-> val]

Ret(r, st) == [res |-> r, st |-> st]

Logged(st, e) == [st EXCEPT !.log = Append(@, e)]

(***************************************************************************)
(* Pattern and builder values.  kind names the class; the other fields are *)
(* the slots the class declares.                                           *)
(***************************************************************************)
Any == [kind |-> "Any"]

Never == [kind |-> "Never"]

EqualTo(v) == [kind |-> "EqualTo", value |-> v]

InstanceOf(typ) == [kind |-> "InstanceOf", type |-> typ]

Apply(func) == [kind |-> "Apply", func |-> func]

Not(inner) == [kind |-> "Not", pattern |-> inner]

AnyOf(pats) == [kind |-> "AnyOf", patterns |-> pats]

AllOf(pats) == [kind |-> "AllOf", patterns |-> pats]

Capture(key, p) == [kind |-> "Capture", key |-> key, pattern |-> p]

Replace(matcher, replacer) ==
    [kind |-> "Replace", pattern |-> matcher, builder |-> replacer]

Just(v) == [kind |-> "Just", value |-> v]

Variable(name) == [kind |-> "Variable", name |-> name]

Factory(func) == [kind |-> "Factory", func |-> func]

\* a callable that is not a builder
Callable(func) == [kind |-> "callable", func |-> func]

\* builder(obj): a builder is taken as it is, a callable becomes a Factory,
\* anything else a Just
builder(obj) ==
    IF "tag" \in DOMAIN obj THEN Just(obj)
    ELSE IF obj.kind = "callable" THEN Factory(obj.func)
    ELSE obj

\* Call.__init__; kwargs is the sequence of the keyword arguments
Call(func, args, kwargs) ==
    [kind |-> "Call",
     func |-> func,
     args |-> [i \in 1..Len(args) |-> builder(args[i])],
     kwargs |-> [i \in 1..Len(kwargs) |->
                    [name |-> kwargs[i].name, value |-> builder(kwargs[i].value)]]]

\* None as the value of an Optional[int] constructor parameter
Nil == -1

\* raised by a constructor: the pattern was built incorrectly
UsageError(kind) == [kind |-> "UsageError", error |-> kind]

\* the types that implement the Coercible protocol
CoercibleTypes == {"Num", "Text"}

\* CoercedTo.__new__: a type that is not Coercible is simply called
CoercedTo(target) ==
    IF target \in CoercibleTypes
    THEN [kind |-> "CoercedTo", target |-> target]
    ELSE Apply(target)

\* the Ellipsis object and a type object, as items of a pattern sequence
\* or as annotations
Ellipsis == [kind |-> "Ellipsis"]

TypeObj(typ) == [kind |-> "type", type |-> typ]

\* typing.Any as an annotation
AnyType == [kind |-> "AnyType"]

\* Length.__init__
Length(exactly, at_least, at_most) ==
    IF exactly # Nil
    THEN IF at_least # Nil \/ at_most # Nil
         THEN UsageError("ValueError")
         ELSE [kind |-> "Length", at_least |-> exactly, at_most |-> exactly]
    ELSE [kind |-> "Length", at_least |-> at_least, at_most |-> at_most]

RECURSIVE pattern(_)

\* SequenceOf.__init__: the length constraint is built from at_least and
\* at_most
SequenceOf(item, type, exactly, at_least, at_most) ==
    [kind |-> "SequenceOf",
     item |-> pattern(item),
     type |-> CoercedTo(type),
     length |-> Length(Nil, at_least, at_most)]

\* PatternSequence.__init__: each pattern paired with the one following it,
\* the last one with a pattern that matches nothing
pattern_window(current_patterns) ==
    [i \in 1..Len(current_patterns) |->
        <<current_patterns[i],
          (SubSeq(current_patterns, 2, Len(current_patterns))
               \o <<Not(Any)>>)[i]>>]

PatternSequence(patterns) ==
    [kind |-> "PatternSequence",
     pattern_window |->
        pattern_window([i \in 1..Len(patterns) |->
                            IF patterns[i] = Ellipsis
                            THEN SequenceOf(Any, "tuple", Nil, Nil, Nil)
                            ELSE pattern(patterns[i])])]

\* pattern(obj): a pattern of a pattern, a type, an iterable or a plain value
pattern(obj) ==
    IF "tag" \in DOMAIN obj
    THEN IF IsIterable(obj) THEN PatternSequence(obj.items) ELSE EqualTo(obj)
    ELSE IF obj = Ellipsis THEN Any
    ELSE IF obj.kind = "type" THEN InstanceOf(obj.type)
    ELSE obj

\* Object.__new__ and Object.__init__; kwargs is the sequence of the keyword
\* arguments, each a name and a pattern
Object(type, args, kwargs) ==
    IF Len(args) = 0 /\ Len(kwargs) = 0
    THEN InstanceOf(type.type)
    ELSE [kind |-> "Object",
          type |-> pattern(type),
          args |-> [i \in 1..Len(args) |-> pattern(args[i])],
          kwargs |-> [i \in 1..Len(kwargs) |->
                        [name |-> kwargs[i].name,
                         pattern |-> pattern(kwargs[i].pattern)]]]

\* Attrs.__init__; fields is the sequence of the keyword arguments
Attrs(fields) ==
    [kind |-> "Attrs",
     fields |-> [i \in 1..Len(fields) |->
                    [name |-> fields[i].name,
                     pattern |-> pattern(fields[i].pattern)]]]

\* Node.__init__
Node(type, each_arg) ==
    [kind |-> "Node", type |-> pattern(type), each_arg |-> pattern(each_arg)]

\* CallableWith.__init__
CallableWith(args, return_) ==
    [kind |-> "CallableWith", args |-> args, return_ |-> return_]

\* Topmost.__init__ and Innermost.__init__; filter is a class, or "" for None
Topmost(searcher, filter) ==
    [kind |-> "Topmost", pattern |-> pattern(searcher), filter |-> filter]

Innermost(searcher, filter) ==
    [kind |-> "Innermost", pattern |-> pattern(searcher), filter |-> filter]

\* Option.__init__
Option(p, default) ==
    [kind |-> "Option", pattern |-> pattern(p), default |-> default]

\* TupleOf.__init__, for a tuple of fields
TupleOf(fields) ==
    [kind |-> "TupleOf", fields |-> [i \in 1..Len(fields) |-> pattern(fields[i])]]

\* MappingOf.__init__
MappingOf(key, val, type) ==
    [kind |-> "MappingOf", key |-> pattern(key), value |-> pattern(val),
     type |-> CoercedTo(type)]

\* the annotations: a generic alias is its origin and its arguments, a type
\* variable its variance and its bound
NoneType == TypeObj("NoneType")

Alias(origin, args) == [kind |-> origin, args |-> args]

GenericAlias(origin, args) ==
    [kind |-> "GenericMeta", origin |-> origin, args |-> args]

\* Callable[[arg_hints], return_hint], or Callable without arguments
CallableAlias(has_args, arg_hints, return_hint) ==
    [kind |-> "Callable", has_args |-> has_args, args |-> arg_hints,
     return_ |-> return_hint]

NoBound == [kind |-> "NoBound"]

TypeVar(covariant, bound) ==
    [kind |-> "TypeVar", covariant |-> covariant, bound |-> bound]

\* the first usage error among the patterns lowered from the parts of an
\* annotation, or the pattern built from them
Lowered(inners, built) ==
    IF \E i \in 1..Len(inners) : inners[i].kind = "UsageError"
    THEN inners[CHOOSE i \in 1..Len(inners) :
                    /\ inners[i].kind = "UsageError"
                    /\ \A j \in 1..(i - 1) : inners[j].kind # "UsageError"]
    ELSE built

RECURSIVE from_typehint(_, _)

\* map(cls.from_typehint, args): allow_coercion is not passed on, so each
\* argument is lowered with the default, allow_coercion=True
from_typehints(args) == [i \in 1..Len(args) |-> from_typehint(args[i], TRUE)]

\* GenericInstanceOf.__init__: one field pattern for each type argument
GenericInstanceOf_fields(origin, fields) ==
    Lowered(fields,
            [kind |-> "GenericInstanceOf", origin |-> origin, fields |-> fields])

GenericInstanceOf(typ) ==
    GenericInstanceOf_fields(typ.origin,
        [i \in 1..Len(typ.args) |-> from_typehint(typ.args[i], FALSE)])

\* GenericCoercedTo.__init__
GenericCoercedTo_checked(target, checker) ==
    Lowered(<<checker>>,
            [kind |-> "GenericCoercedTo", origin |-> target.origin,
             params |-> target.args, checker |-> checker])

GenericCoercedTo(target) ==
    GenericCoercedTo_checked(target, GenericInstanceOf(target))

\* the AnyOf over the lowered branches of a union, wrapped in an Option
\* when the last branch is NoneType
Union_pattern(args, inners) ==
    IF args[Len(args)] = NoneType
    THEN Option(IF Len(args) = 2 THEN inners[1]
                ELSE AnyOf(SubSeq(inners, 1, Len(args) - 1)),
                None)
    ELSE AnyOf(inners)

\* Pattern.from_typehint, by the shape of the annotation
from_typehint(annot, allow_coercion) ==
    IF annot = Ellipsis \/ annot = AnyType THEN Any
    ELSE IF annot.kind = "type"
    THEN IF allow_coercion /\ annot.type \in CoercibleTypes
         THEN CoercedTo(annot.type)
         ELSE InstanceOf(annot.type)
    ELSE IF annot.kind = "TypeVar"
    THEN IF ~annot.covariant THEN UsageError("NotImplementedError")
         ELSE IF annot.bound # NoBound THEN from_typehint(annot.bound, TRUE)
         ELSE Any
    ELSE IF annot.kind = "Union"
    THEN Lowered(from_typehints(annot.args),
                 Union_pattern(annot.args, from_typehints(annot.args)))
    ELSE IF annot.kind = "Annotated"
    THEN Lowered(<<from_typehint(annot.args[1], TRUE)>>,
                 AllOf(<<from_typehint(annot.args[1], TRUE)>>
                           \o Tail(annot.args)))
    ELSE IF annot.kind = "Callable"
    THEN IF annot.has_args
         THEN Lowered(from_typehints(annot.args \o <<annot.return_>>),
                      CallableWith(from_typehints(annot.args),
                                   from_typehint(annot.return_, TRUE)))
         ELSE InstanceOf("Callable")
    ELSE IF annot.kind = "Tuple"
    THEN IF Tail(annot.args) = <<Ellipsis>>
         THEN Lowered(<<from_typehint(annot.args[1], TRUE)>>,
                      SequenceOf(from_typehint(annot.args[1], TRUE), "tuple",
                                 Nil, Nil, Nil))
         ELSE Lowered(from_typehints(annot.args),
                      TupleOf(from_typehints(annot.args)))
    ELSE IF annot.kind = "Sequence"
    THEN Lowered(from_typehints(annot.args),
                 SequenceOf(from_typehints(annot.args)[1], "list",
                            Nil, Nil, Nil))
    ELSE IF annot.kind = "Mapping"
    THEN Lowered(from_typehints(annot.args),
                 MappingOf(from_typehints(annot.args)[1],
                           from_typehints(annot.args)[2], "dict"))
    ELSE IF annot.kind = "GenericMeta"
    THEN IF allow_coercion /\ annot.origin \in CoercibleTypes
                           /\ annot.args # <<>>
         THEN GenericCoercedTo(annot)
         ELSE GenericInstanceOf(annot)
    ELSE UsageError("TypeError")

(***************************************************************************)
(* The callables the patterns and builders of the model hold.              *)
(***************************************************************************)
\* func(value) of Apply: lambda x: x + 1, tuple, list
CallFunc(func, v) ==
    CASE func = "inc" ->
            IF v.tag = "int" THEN IntV(v.n + 1) ELSE Raise("TypeError")
      [] func = "tuple" ->
            IF v.tag \in {"list", "tuple"} THEN TupleV(v.items)
            ELSE Raise("TypeError")
      [] func = "list" ->
            IF v.tag \in {"list", "tuple"} THEN ListV(v.items)
            ELSE Raise("TypeError")
      [] OTHER -> Raise("TypeError")

\* func(value, context) of Factory: lambda v, ctx: v and
\* lambda v, ctx: (v, ctx.get(x))
CallFactory(func, v, c) ==
    CASE func = "value" -> v
      [] func = "withx" ->
            TupleV(<<v, IF c["x"] = Unbound THEN None ELSE c["x"]>>)
      [] OTHER -> Raise("TypeError")

\* target.__coerce__(value) of the coercible types: Num coerces an integer,
\* signals CoercionError for a string, fails with another error for None
\* and hands any other value back as it is; Text coerces a string, signals
\* CoercionError for an integer, hands None back and fails with another
\* error for anything else
Coerce(target, v) ==
    CASE target = "Num" ->
            IF v.tag = "int" THEN ObjV(0, "Num", <<v>>)
            ELSE IF v.tag = "str" THEN Raise("CoercionError")
            ELSE IF v = None THEN Raise("ValueError")
            ELSE v
      [] target = "Text" ->
            IF v.tag = "str" THEN ObjV(0, "Text", <<v>>)
            ELSE IF v.tag = "int" THEN Raise("CoercionError")
            ELSE IF v = None THEN v
            ELSE Raise("TypeError")
      [] OTHER -> Raise("AttributeError")

(***************************************************************************)
(* Builder.make(context).  A make event records which builder ran and      *)
(* what the reserved key held when it ran.                                 *)
(***************************************************************************)
Variable_make(b, c) ==
    IF c[b.name] = Unbound THEN Raise("KeyError") ELSE c[b.name]

Just_make(b, c) == b.value

Factory_make(b, c) ==
    IF c[Underscore] = Unbound THEN Raise("KeyError")
    ELSE CallFactory(b.func, c[Underscore], c)

\* func(*args, **kwargs) of Call: lambda *args, **kwargs: args +
\* tuple(kwargs.values()), and lambda a, b: a + b
Invoke(func, args, kwargs) ==
    CASE func = "collect" ->
            TupleV(args \o [i \in 1..Len(kwargs) |-> kwargs[i].value])
      [] func = "add" ->
            IF Len(args) = 2 /\ Len(kwargs) = 0
               /\ args[1].tag = "int" /\ args[2].tag = "int"
            THEN IntV(args[1].n + args[2].n)
            ELSE Raise("TypeError")
      [] OTHER -> Raise("TypeError")

RECURSIVE Builder_make(_, _, _)
RECURSIVE Call_resolve(_, _, _, _, _)

\* arg.make(context) for the builders from the i-th on, in order; made is
\* what the earlier ones gave
Call_resolve(builders, i, made, st, path) ==
    IF i > Len(builders) THEN Ret(TupleV(made), st)
    ELSE LET r == Builder_make(builders[i], st, Append(path, i))
         IN  IF IsRaise(r.res) THEN r
             ELSE Call_resolve(builders, i + 1, Append(made, r.res), r.st, path)

\* Call.make: the positional and the keyword arguments are made, then the
\* function is called with them
Call_make(b, st, path) ==
    LET vals == [i \in 1..Len(b.kwargs) |-> b.kwargs[i].value]
        r == Call_resolve(b.args \o vals, 1, <<>>, st, path)
        args == SubSeq(r.res.items, 1, Len(b.args))
        kwargs == [i \in 1..Len(b.kwargs) |->
                      [name |-> b.kwargs[i].name,
                       value |-> r.res.items[Len(b.args) + i]]]
    IN  IF IsRaise(r.res) THEN r
        ELSE Ret(Invoke(b.func, args, kwargs),
                 Logged(r.st, Ev("call", path, b.func, r.res)))

\* Call___call__ without the check for arguments already given
Call___call___respecified(b, args, kwargs) ==
    Val("builder", 0, "", <<Call(b.func, args, kwargs)>>)

\* Call.__call__: a Call that holds arguments cannot be given further ones
Call___call__(b, args, kwargs) ==
    IF Len(b.args) > 0 \/ Len(b.kwargs) > 0 THEN Raise("TypeError")
    ELSE Val("builder", 0, "", <<Call(b.func, args, kwargs)>>)

Builder_make(b, st, path) ==
    LET st1 == Logged(st, Ev("make", path, b.kind, st.ctx[Underscore]))
    IN  CASE b.kind = "Variable" -> Ret(Variable_make(b, st.ctx), st1)
          [] b.kind = "Just" -> Ret(Just_make(b, st.ctx), st1)
          [] b.kind = "Factory" -> Ret(Factory_make(b, st.ctx), st1)
          [] b.kind = "Call" -> Call_make(b, st1, path)

(***************************************************************************)
(* Pattern.match(value, context), one operator per class.  path is the     *)
(* position of the pattern in the tree of the top-level pattern.           *)
(***************************************************************************)
RECURSIVE Pattern_match(_, _, _, _)
RECURSIVE AnyOf_loop(_, _, _, _, _)
RECURSIVE AllOf_loop(_, _, _, _, _)
RECURSIVE SequenceOf_loop(_, _, _, _, _, _)
RECURSIVE Wildcard_loop(_, _, _, _, _)
RECURSIVE PatternSequence_loop(_, _, _, _, _, _)
RECURSIVE Object_loop(_, _, _, _, _, _, _)
RECURSIVE Node_loop(_, _, _, _, _, _, _)
RECURSIVE Attrs_loop(_, _, _, _, _)
RECURSIVE Topmost_match(_, _, _, _)
RECURSIVE Topmost_loop(_, _, _, _, _)
RECURSIVE Innermost_match(_, _, _, _)
RECURSIVE Innermost_loop(_, _, _, _, _)

Any_match(p, v, st, path) == Ret(v, st)

Never_match(p, v, st, path) == Ret(NoMatch, st)

EqualTo_match(p, v, st, path) ==
    IF PyEq(v, p.value) THEN Ret(v, st) ELSE Ret(NoMatch, st)

InstanceOf_match(p, v, st, path) ==
    IF IsInstance(v, p.type) THEN Ret(v, st) ELSE Ret(NoMatch, st)

Apply_match(p, v, st, path) == Ret(CallFunc(p.func, v), st)

\* CoercedTo_match with every error of the coercion turned into NoMatch
CoercedTo_match_swallow(p, v, st, path) ==
    LET coerced == Coerce(p.target, v)
    IN  IF IsRaise(coerced) THEN Ret(NoMatch, st)
        ELSE IF IsInstance(coerced, p.target) THEN Ret(coerced, st)
        ELSE Ret(NoMatch, st)

\* CoercedTo.match: only CoercionError is caught
CoercedTo_match(p, v, st, path) ==
    LET coerced == Coerce(p.target, v)
    IN  IF coerced = Raise("CoercionError") THEN Ret(NoMatch, st)
        ELSE IF IsRaise(coerced) THEN Ret(coerced, st)
        ELSE IF IsInstance(coerced, p.target) THEN Ret(coerced, st)
        ELSE Ret(NoMatch, st)

Not_match(p, v, st, path) ==
    LET r == Pattern_match(p.pattern, v, st, Append(path, 1))
    IN  IF IsRaise(r.res) THEN r
        ELSE IF r.res = NoMatch THEN Ret(v, r.st)
        ELSE Ret(NoMatch, r.st)

Capture_match(p, v, st, path) ==
    LET r == Pattern_match(p.pattern, v, st, Append(path, 1))
    IN  IF IsRaise(r.res) \/ r.res = NoMatch THEN r
        ELSE Ret(r.res,
                 Logged([r.st EXCEPT !.ctx = CtxSet(@, p.key, r.res)],
                        Ev("write", path, p.key, r.res)))

\* Replace_match with the reserved key bound to the value given, not to the
\* matched result
Replace_match_original(p, v, st, path) ==
    LET r == Pattern_match(p.pattern, v, st, Append(path, 1))
    IN  IF IsRaise(r.res) \/ r.res = NoMatch THEN r
        ELSE Builder_make(p.builder,
                          Logged([r.st EXCEPT !.ctx = CtxSet(@, Underscore, v)],
                                 Ev("write", path, Underscore, v)),
                          path)

Replace_match(p, v, st, path) ==
    LET r == Pattern_match(p.pattern, v, st, Append(path, 1))
    IN  IF IsRaise(r.res) \/ r.res = NoMatch THEN r
        ELSE Builder_make(p.builder,
                          Logged([r.st EXCEPT !.ctx = CtxSet(@, Underscore, r.res)],
                                 Ev("write", path, Underscore, r.res)),
                          path)

\* Python's truth value of a result
Falsy(v) ==
    \/ v \in {None, IntV(0), StrV("")}
    \/ (v.tag \in {"list", "tuple"} /\ Len(v.items) = 0)

\* AnyOf_loop with `if result:` in place of `if result is not NoMatch:`
AnyOf_loop_truthy(pats, i, v, st, path) ==
    IF i > Len(pats) THEN Ret(NoMatch, st)
    ELSE LET r == Pattern_match(pats[i], v, st, Append(path, i))
         IN  IF IsRaise(r.res) THEN r
             ELSE IF r.res # NoMatch /\ ~Falsy(r.res) THEN r
             ELSE AnyOf_loop(pats, i + 1, v, r.st, path)

\* for pattern in self.patterns, from the i-th on: the first result that is
\* not the sentinel is returned
AnyOf_loop(pats, i, v, st, path) ==
    IF i > Len(pats) THEN Ret(NoMatch, st)
    ELSE LET r == Pattern_match(pats[i], v, st, Append(path, i))
         IN  IF IsRaise(r.res) THEN r
             ELSE IF r.res # NoMatch THEN r
             ELSE AnyOf_loop(pats, i + 1, v, r.st, path)

AnyOf_match(p, v, st, path) == AnyOf_loop(p.patterns, 1, v, st, path)

\* AllOf_loop with every pattern given the original value
AllOf_loop_unthreaded(pats, i, v, st, path) ==
    IF i > Len(pats) THEN Ret(v, st)
    ELSE LET r == Pattern_match(pats[i], v, st, Append(path, i))
         IN  IF IsRaise(r.res) \/ r.res = NoMatch THEN r
             ELSE AllOf_loop(pats, i + 1, v, r.st, path)

\* AllOf_loop with the context restored when a pattern fails
AllOf_loop_rollback(pats, i, v, st, path) ==
    IF i > Len(pats) THEN Ret(v, st)
    ELSE LET r == Pattern_match(pats[i], v, st, Append(path, i))
         IN  IF IsRaise(r.res) THEN r
             ELSE IF r.res = NoMatch
             THEN Ret(NoMatch, [r.st EXCEPT !.ctx = st.ctx])
             ELSE LET rest == AllOf_loop(pats, i + 1, r.res, r.st, path)
                  IN  IF rest.res = NoMatch
                      THEN Ret(NoMatch, [rest.st EXCEPT !.ctx = st.ctx])
                      ELSE rest

\* for pattern in self.patterns, from the i-th on: value is what the
\* previous pattern returned
AllOf_loop(pats, i, v, st, path) ==
    IF i > Len(pats) THEN Ret(v, st)
    ELSE LET r == Pattern_match(pats[i], v, st, Append(path, i))
         IN  IF IsRaise(r.res) \/ r.res = NoMatch THEN r
             ELSE AllOf_loop(pats, i + 1, r.res, r.st, path)

AllOf_match(p, v, st, path) == AllOf_loop(p.patterns, 1, v, st, path)

\* len(value)
Length_match(p, v, st, path) ==
    IF ~(v.tag \in {"list", "tuple"}) THEN Ret(Raise("TypeError"), st)
    ELSE LET length == Len(v.items)
         IN  IF p.at_least # Nil /\ length < p.at_least THEN Ret(NoMatch, st)
             ELSE IF p.at_most # Nil /\ length > p.at_most THEN Ret(NoMatch, st)
             ELSE Ret(v, st)

\* for value in values, from the i-th on; result is the list built so far
SequenceOf_loop(p, values, i, result, st, path) ==
    IF i > Len(values) THEN Ret(ListV(result), st)
    ELSE LET r == Pattern_match(p.item, values[i], st, Append(path, 1))
         IN  IF IsRaise(r.res) \/ r.res = NoMatch THEN r
             ELSE SequenceOf_loop(p, values, i + 1, Append(result, r.res),
                                  r.st, path)

\* SequenceOf_match without the coercion to the container type
SequenceOf_match_uncoerced(p, v, st, path) ==
    IF ~IsIterable(v) THEN Ret(NoMatch, st)
    ELSE LET r1 == SequenceOf_loop(p, v.items, 1, <<>>, st, path)
         IN  IF IsRaise(r1.res) \/ r1.res = NoMatch THEN r1
             ELSE Pattern_match(p.length, r1.res, r1.st, Append(path, 3))

SequenceOf_match(p, v, st, path) ==
    IF ~IsIterable(v) THEN Ret(NoMatch, st)
    ELSE LET r1 == SequenceOf_loop(p, v.items, 1, <<>>, st, path)
         IN  IF IsRaise(r1.res) \/ r1.res = NoMatch THEN r1
             ELSE LET r2 == Pattern_match(p.type, r1.res, r1.st, Append(path, 2))
                  IN  IF IsRaise(r2.res) \/ r2.res = NoMatch THEN r2
                      ELSE Pattern_match(p.length, r2.res, r2.st,
                                         Append(path, 3))

(***************************************************************************)
(* RewindableIterator: a cursor over the elements, pos of them consumed,   *)
(* chk the position of the last checkpoint.                                *)
(***************************************************************************)
RewindableIterator(v) == [seq |-> v.items, pos |-> 0, chk |-> 0]

Exhausted(it) == it.pos >= Len(it.seq)

\* next(it), when it is not exhausted
NextItem(it) == it.seq[it.pos + 1]

Advance(it) == [it EXCEPT !.pos = @ + 1]

Checkpoint(it) == [it EXCEPT !.chk = it.pos]

Rewind(it) == [it EXCEPT !.pos = it.chk]

\* Wildcard_loop without the rewind: the element that satisfied the
\* following pattern stays consumed
Wildcard_loop_norewind(following, it, matches, st, path) ==
    LET it1 == Checkpoint(it)
    IN  IF Exhausted(it1)
        THEN [matches |-> matches, it |-> it1, err |-> NoMatch,
              st |-> Logged(st, Ev("stop", path, "", NoMatch))]
        ELSE LET item == NextItem(it1)
                 it2 == Advance(it1)
                 st1 == Logged(st, Ev("next", path, "", item))
                 r == Pattern_match(following, item, st1, Append(path, 0))
             IN  IF IsRaise(r.res)
                 THEN [matches |-> matches, it |-> it2, err |-> r.res,
                       st |-> r.st]
                 ELSE IF r.res = NoMatch
                 THEN Wildcard_loop(following, it2, Append(matches, item),
                                    r.st, path)
                 ELSE [matches |-> matches, it |-> it2, err |-> NoMatch,
                       st |-> r.st]

\* Wildcard_loop ending the run at the last element that satisfies the
\* following pattern, not at the first
Wildcard_loop_lastsplit(following, it, matches, st, path) ==
    LET it1 == Checkpoint(it)
    IN  IF Exhausted(it1)
        THEN [matches |-> matches, it |-> it1, err |-> NoMatch,
              st |-> Logged(st, Ev("stop", path, "", NoMatch))]
        ELSE LET item == NextItem(it1)
                 it2 == Advance(it1)
                 st1 == Logged(st, Ev("next", path, "", item))
                 r == Pattern_match(following, item, st1, Append(path, 0))
                 later == \E j \in (it2.pos + 1)..Len(it2.seq) :
                             Pattern_match(following, it2.seq[j], st1,
                                           Append(path, 0)).res # NoMatch
             IN  IF IsRaise(r.res)
                 THEN [matches |-> matches, it |-> it2, err |-> r.res,
                       st |-> r.st]
                 ELSE IF r.res = NoMatch \/ later
                 THEN Wildcard_loop(following, it2, Append(matches, item),
                                    r.st, path)
                 ELSE [matches |-> matches, it |-> Rewind(it2), err |-> NoMatch,
                       st |-> Logged(r.st, Ev("rewind", path, "", item))]

\* the loop of a wildcard slot: elements are consumed until one satisfies
\* the following pattern (the cursor is rewound to before it) or the cursor
\* is exhausted; matches is the run consumed so far
Wildcard_loop(following, it, matches, st, path) ==
    LET it1 == Checkpoint(it)
    IN  IF Exhausted(it1)
        THEN [matches |-> matches, it |-> it1, err |-> NoMatch,
              st |-> Logged(st, Ev("stop", path, "", NoMatch))]
        ELSE LET item == NextItem(it1)
                 it2 == Advance(it1)
                 st1 == Logged(st, Ev("next", path, "", item))
                 r == Pattern_match(following, item, st1, Append(path, 0))
             IN  IF IsRaise(r.res)
                 THEN [matches |-> matches, it |-> it2, err |-> r.res,
                       st |-> r.st]
                 ELSE IF r.res = NoMatch
                 THEN Wildcard_loop(following, it2, Append(matches, item),
                                    r.st, path)
                 ELSE [matches |-> matches, it |-> Rewind(it2), err |-> NoMatch,
                       st |-> Logged(r.st, Ev("rewind", path, "", item))]

\* the pattern a wildcard slot probes: the following pattern, the item
\* pattern of a following SequenceOf, the first pattern of a following
\* PatternSequence
Lookahead(following) ==
    IF following.kind = "SequenceOf" THEN following.item
    ELSE IF following.kind = "PatternSequence"
         THEN IF Len(following.pattern_window) = 0
              THEN UsageError("IndexError")
              ELSE following.pattern_window[1][1]
    ELSE following

Uncaptured(p) == IF p.kind = "Capture" THEN p.pattern ELSE p

\* PatternSequence_loop with the slots that are not wildcards reading the
\* element under the cursor without consuming it
PatternSequence_loop_noadvance(window, i, it, result, st, path) ==
    IF i > Len(window) THEN Ret(ListV(result), st)
    ELSE LET original == window[i][1]
             current == Uncaptured(original)
             following == Uncaptured(window[i][2])
         IN  IF current.kind \in {"SequenceOf", "PatternSequence"}
             THEN LET probe == Lookahead(following)
                      w == Wildcard_loop(probe, it, <<>>, st, Append(path, i))
                      r == Pattern_match(original, ListV(w.matches), w.st,
                                         Append(path, i))
                  IN  IF probe.kind = "UsageError"
                      THEN Ret(Raise(probe.error), st)
                      ELSE IF IsRaise(w.err) THEN Ret(w.err, w.st)
                      ELSE IF IsRaise(r.res) \/ r.res = NoMatch THEN r
                      ELSE IF ~(r.res.tag \in {"list", "tuple"})
                      THEN Ret(Raise("TypeError"), r.st)
                      ELSE PatternSequence_loop(window, i + 1, w.it,
                                                result \o r.res.items, r.st,
                                                path)
             ELSE IF Exhausted(it)
                  THEN Ret(NoMatch,
                           Logged(st, Ev("stop", Append(path, i), "", NoMatch)))
                  ELSE LET item == NextItem(it)
                           st1 == Logged(st, Ev("next", Append(path, i), "", item))
                           r == Pattern_match(original, item, st1,
                                              Append(path, i))
                       IN  IF IsRaise(r.res) \/ r.res = NoMatch THEN r
                           ELSE PatternSequence_loop(window, i + 1, it,
                                                     Append(result, r.res),
                                                     r.st, path)

\* for current, following in self.pattern_window, from the i-th pair on
PatternSequence_loop(window, i, it, result, st, path) ==
    IF i > Len(window) THEN Ret(ListV(result), st)
    ELSE LET original == window[i][1]
             current == Uncaptured(original)
             following == Uncaptured(window[i][2])
         IN  IF current.kind \in {"SequenceOf", "PatternSequence"}
             THEN LET probe == Lookahead(following)
                      w == Wildcard_loop(probe, it, <<>>, st, Append(path, i))
                      r == Pattern_match(original, ListV(w.matches), w.st,
                                         Append(path, i))
                  IN  IF probe.kind = "UsageError"
                      THEN Ret(Raise(probe.error), st)
                      ELSE IF IsRaise(w.err) THEN Ret(w.err, w.st)
                      ELSE IF IsRaise(r.res) \/ r.res = NoMatch THEN r
                      ELSE IF ~(r.res.tag \in {"list", "tuple"})
                      THEN Ret(Raise("TypeError"), r.st)
                      ELSE PatternSequence_loop(window, i + 1, w.it,
                                                result \o r.res.items, r.st,
                                                path)
             ELSE IF Exhausted(it)
                  THEN Ret(NoMatch,
                           Logged(st, Ev("stop", Append(path, i), "", NoMatch)))
                  ELSE LET item == NextItem(it)
                           st1 == Logged(st, Ev("next", Append(path, i), "", item))
                           r == Pattern_match(original, item, st1,
                                              Append(path, i))
                       IN  IF IsRaise(r.res) \/ r.res = NoMatch THEN r
                           ELSE PatternSequence_loop(window, i + 1, Advance(it),
                                                     Append(result, r.res),
                                                     r.st, path)

\* PatternSequence_match without the case of the empty pattern window
PatternSequence_match_noempty(p, v, st, path) ==
    IF ~(v.tag \in {"list", "tuple"}) THEN Ret(Raise("TypeError"), st)
    ELSE PatternSequence_loop(p.pattern_window, 1, RewindableIterator(v),
                              <<>>, st, path)

PatternSequence_match(p, v, st, path) ==
    IF ~(v.tag \in {"list", "tuple"}) THEN Ret(Raise("TypeError"), st)
    ELSE LET it == RewindableIterator(v)
         IN  IF Len(p.pattern_window) = 0
             THEN IF Exhausted(it)
                  THEN Ret(ListV(<<>>),
                           Logged(st, Ev("stop", path, "", NoMatch)))
                  ELSE Ret(NoMatch,
                           Logged(st, Ev("next", path, "", NextItem(it))))
             ELSE PatternSequence_loop(p.pattern_window, 1, it, <<>>, st, path)

(***************************************************************************)
(* The classes of the objects the model matches, as AnnotableMeta declares *)
(* them: Rec has the fields a: int and b: int = 0, Pair the fields left    *)
(* and right of any type.                                                  *)
(***************************************************************************)
Classes == {"Rec", "Pair"}

Param(name, p, required, default) ==
    [name |-> name, pattern |-> p, required |-> required, default |-> default]

\* the annotated names of the class body: the type hint and, when the body
\* assigns the name, the class-level value
Declared(name, typehint, has_value, v) ==
    [name |-> name, typehint |-> typehint, has_value |-> has_value, value |-> v]

Declarations(cls) ==
    CASE cls = "Rec" ->
            << Declared("a", TypeObj("int"), FALSE, None),
               Declared("b", TypeObj("int"), TRUE, IntV(0)) >>
      [] cls = "Pair" ->
            << Declared("left", AnyType, FALSE, None),
               Declared("right", AnyType, FALSE, None) >>

\* AnnotableMeta_new with every annotated name made a required argument
AnnotableMeta_new_required(decls) ==
    [i \in 1..Len(decls) |->
        Param(decls[i].name, from_typehint(decls[i].typehint, TRUE), TRUE, None)]

\* AnnotableMeta.__new__: an annotated name the class body assigns becomes
\* Argument.default(value, pattern), any other Argument.required(pattern)
Argument(decl, p) ==
    IF decl.has_value
    THEN Param(decl.name, p, FALSE, decl.value)
    ELSE Param(decl.name, p, TRUE, None)

AnnotableMeta_new(decls) ==
    [i \in 1..Len(decls) |->
        Argument(decls[i], from_typehint(decls[i].typehint, TRUE))]

\* Signature.merge of a class without parents: the required arguments, then
\* the defaulted ones, each group in declaration order
Signature_merge(arguments) ==
    SelectSeq(arguments, LAMBDA a : a.required)
        \o SelectSeq(arguments, LAMBDA a : ~a.required)

\* cls.__signature__
Signature(cls) == Signature_merge(AnnotableMeta_new(Declarations(cls)))

\* cls.__argnames__, which is cls.__match_args__ too
Names(sig) == [i \in 1..Len(sig) |-> sig[i].name]

Argnames(cls) == Names(Signature(cls))

\* the position of a name among the names, 0 when it is not one of them
NameIndex(names, name) ==
    IF \E i \in 1..Len(names) : names[i] = name
    THEN CHOOSE i \in 1..Len(names) : names[i] = name
    ELSE 0

HasAttr(v, name) ==
    /\ v.tag = "obj"
    /\ NameIndex(Argnames(v.s), name) # 0

\* getattr(value, name), when the value has the attribute
GetAttr(v, name) == v.items[NameIndex(Argnames(v.s), name)]

\* a dict as the sequence of its items, in insertion order
DictHas(d, name) == \E i \in 1..Len(d) : d[i].name = name

DictGet(d, name) == d[CHOOSE i \in 1..Len(d) : d[i].name = name].value

DictSet(d, name, v) ==
    IF DictHas(d, name)
    THEN [i \in 1..Len(d) |->
            IF d[i].name = name THEN [name |-> name, value |-> v] ELSE d[i]]
    ELSE Append(d, [name |-> name, value |-> v])

\* Signature.validate(**kwargs): the arguments in declared order, or the
\* error raised for an unknown name, a missing required argument or a value
\* its pattern rejects
Signature_rejects(sig, kwargs) ==
    [i \in 1..Len(sig) |->
        IF DictHas(kwargs, sig[i].name)
        THEN Pattern_match(sig[i].pattern, DictGet(kwargs, sig[i].name),
                           [ctx |-> EmptyContext, log |-> <<>>, heap |-> 0],
                           <<>>).res = NoMatch
        ELSE sig[i].required]

Signature_validated(sig, kwargs, bad) ==
    IF \E j \in 1..Len(kwargs) :
          ~(\E i \in 1..Len(sig) : sig[i].name = kwargs[j].name)
    THEN Raise("TypeError")
    ELSE IF \E i \in 1..Len(sig) : bad[i]
    THEN IF \E i \in 1..Len(sig) : ~DictHas(kwargs, sig[i].name) /\ bad[i]
         THEN Raise("TypeError")
         ELSE Raise("ValidationError")
    ELSE TupleV([i \in 1..Len(sig) |->
                    IF DictHas(kwargs, sig[i].name)
                    THEN DictGet(kwargs, sig[i].name)
                    ELSE sig[i].default])

Signature_validate_sig(sig, kwargs) ==
    Signature_validated(sig, kwargs, Signature_rejects(sig, kwargs))

Signature_validate(cls, kwargs) == Signature_validate_sig(Signature(cls), kwargs)

\* cls(**kwargs): Annotable.__create__ validates the arguments and builds a
\* new instance, which gets the next identity
Annotable_new(cls, args, st) ==
    IF IsRaise(args) THEN Ret(args, st)
    ELSE Ret(ObjV(st.heap, cls, args.items), [st EXCEPT !.heap = @ + 1])

Annotable_create(cls, kwargs, st) ==
    Annotable_new(cls, Signature_validate(cls, kwargs), st)

\* {**self.kwargs, **dict(zip(value.__match_args__, self.args))}
Object_patterns(p, v) ==
    LET names == Argnames(v.s)
        n == IF Len(p.args) < Len(names) THEN Len(p.args) ELSE Len(names)
        merge[i \in 0..n] ==
            IF i = 0
            THEN [k \in 1..Len(p.kwargs) |->
                    [name |-> p.kwargs[k].name, value |-> p.kwargs[k].pattern]]
            ELSE DictSet(merge[i - 1], names[i], p.args[i])
    IN  merge[n]

\* for name, pattern in patterns.items(), from the i-th on
Object_loop(patterns, i, v, fields, changed, st, path) ==
    IF i > Len(patterns)
    THEN IF changed THEN Annotable_create(v.s, fields, st) ELSE Ret(v, st)
    ELSE LET name == patterns[i].name
         IN  IF ~HasAttr(v, name) THEN Ret(NoMatch, st)
             ELSE LET attr == GetAttr(v, name)
                      r == Pattern_match(patterns[i].value, attr, st,
                                         Append(path, i))
                  IN  IF IsRaise(r.res) \/ r.res = NoMatch THEN r
                      ELSE IF ~PyEq(r.res, attr)
                      THEN Object_loop(patterns, i + 1, v,
                                       DictSet(fields, name, r.res), TRUE,
                                       r.st, path)
                      ELSE Object_loop(patterns, i + 1, v,
                                       DictSet(fields, name, attr), changed,
                                       r.st, path)

Object_match(p, v, st, path) ==
    LET r == Pattern_match(p.type, v, st, Append(path, 0))
    IN  IF IsRaise(r.res) \/ r.res = NoMatch THEN r
        ELSE IF v.tag # "obj" THEN Ret(Raise("AttributeError"), r.st)
        ELSE Object_loop(Object_patterns(p, v), 1, v, <<>>, FALSE, r.st, path)

\* match(pattern, v, context) returned r for the i-th attribute
Attrs_item(fields, i, v, path, r) ==
    IF IsRaise(r.res) \/ r.res = NoMatch THEN r
    ELSE Attrs_loop(fields, i + 1, v, r.st, path)

\* Attrs_loop raising the AttributeError of the missing attribute
Attrs_loop_raising(fields, i, v, st, path) ==
    IF i > Len(fields) THEN Ret(v, st)
    ELSE IF ~HasAttr(v, fields[i].name) THEN Ret(Raise("AttributeError"), st)
    ELSE Attrs_item(fields, i, v, path,
                    Pattern_match(pattern(fields[i].pattern),
                                  GetAttr(v, fields[i].name), st,
                                  Append(path, i)))

\* for attr, pattern in self.fields.items(), from the i-th on; the matched
\* result of an attribute is only tested against NoMatch
Attrs_loop(fields, i, v, st, path) ==
    IF i > Len(fields) THEN Ret(v, st)
    ELSE IF ~HasAttr(v, fields[i].name) THEN Ret(NoMatch, st)
    ELSE Attrs_item(fields, i, v, path,
                    Pattern_match(pattern(fields[i].pattern),
                                  GetAttr(v, fields[i].name), st,
                                  Append(path, i)))

Attrs_match(p, v, st, path) == Attrs_loop(p.fields, 1, v, st, path)

\* Node_loop giving up at the first argument each_arg does not match
Node_loop_strict(p, v, i, newargs, changed, st, path) ==
    IF i > Len(Argnames(v.s))
    THEN IF changed THEN Annotable_create(v.s, newargs, st) ELSE Ret(v, st)
    ELSE LET name == Argnames(v.s)[i]
             arg == v.items[i]
             r == Pattern_match(p.each_arg, arg, st, Append(path, i))
         IN  IF IsRaise(r.res) \/ r.res = NoMatch THEN r
             ELSE Node_loop(p, v, i + 1, DictSet(newargs, name, r.res), TRUE,
                            r.st, path)

\* for name, arg in zip(value.__argnames__, value.__args__), from the i-th on
Node_loop(p, v, i, newargs, changed, st, path) ==
    IF i > Len(Argnames(v.s))
    THEN IF changed THEN Annotable_create(v.s, newargs, st) ELSE Ret(v, st)
    ELSE LET name == Argnames(v.s)[i]
             arg == v.items[i]
             r == Pattern_match(p.each_arg, arg, st, Append(path, i))
         IN  IF IsRaise(r.res) THEN r
             ELSE IF r.res = NoMatch
             THEN Node_loop(p, v, i + 1, DictSet(newargs, name, arg), changed,
                            r.st, path)
             ELSE Node_loop(p, v, i + 1, DictSet(newargs, name, r.res), TRUE,
                            r.st, path)

Node_match(p, v, st, path) ==
    LET r == Pattern_match(p.type, v, st, Append(path, 0))
    IN  IF IsRaise(r.res) \/ r.res = NoMatch THEN r
        ELSE IF v.tag # "obj" THEN Ret(Raise("AttributeError"), r.st)
        ELSE Node_loop(p, v, 1, <<>>, FALSE, r.st, path)

\* a callable value: the number of its positional parameters, whether it
\* takes *args, and its keyword-only parameters, each a boolean telling
\* whether the parameter has a default
FuncV(positional, has_varargs, keyword_only) ==
    Val("func", positional, IF has_varargs THEN "varargs" ELSE "",
        [i \in 1..Len(keyword_only) |-> PyBool(keyword_only[i])])

IsCallable(v) == v.tag \in {"func", "annotated"}

\* annotated(args, return_, value): the callable wrapped with validation of
\* its arguments and result; the wrapper has the parameters of the callable
Annotated(args, return_, v) == [v EXCEPT !.tag = "annotated"]

\* CallableWith.match on the wrapped callable fn
CallableWith_check(p, fn, st) ==
    IF Len(fn.items) > 0 THEN Ret(Raise("MatchError"), st)
    ELSE IF fn.n > Len(p.args) THEN Ret(NoMatch, st)
    ELSE IF fn.n < Len(p.args) /\ fn.s # "varargs" THEN Ret(NoMatch, st)
    ELSE Ret(fn, st)

CallableWith_match(p, v, st, path) ==
    IF ~IsCallable(v) THEN Ret(NoMatch, st)
    ELSE CallableWith_check(p, Annotated(p.args, p.return_, v), st)

\* value.__children__(filter): the arguments of the node that are nodes
\* themselves, in order, those of the filter's class only when one is given
Children(v, filter) ==
    SelectSeq(v.items,
              LAMBDA c : c.tag = "obj" /\ (filter = "" \/ IsInstance(c, filter)))

\* Topmost_loop with the children visited from the last to the first
Topmost_loop_reversed(p, children, i, st, path) ==
    IF i > Len(children) THEN Ret(NoMatch, st)
    ELSE LET r == Topmost_match(p, children[Len(children) - i + 1], st, path)
         IN  IF r.res # NoMatch THEN r
             ELSE Topmost_loop(p, children, i + 1, r.st, path)

\* for child in value.__children__(self.filter), from the i-th on
Topmost_loop(p, children, i, st, path) ==
    IF i > Len(children) THEN Ret(NoMatch, st)
    ELSE LET r == Topmost_match(p, children[i], st, path)
         IN  IF r.res # NoMatch THEN r
             ELSE Topmost_loop(p, children, i + 1, r.st, path)

\* Topmost_match with the children searched before the node is tried
Topmost_match_postorder(p, v, st, path) ==
    LET c == Topmost_loop(p, Children(v, p.filter), 1, st, path)
    IN  IF c.res # NoMatch THEN c
        ELSE Pattern_match(p.pattern, v, c.st, Append(path, 1))

\* Topmost.match: the node first, then its children in order
Topmost_match(p, v, st, path) ==
    LET r == Pattern_match(p.pattern, v, st, Append(path, 1))
    IN  IF r.res # NoMatch THEN r
        ELSE IF v.tag # "obj" THEN Ret(Raise("AttributeError"), r.st)
        ELSE Topmost_loop(p, Children(v, p.filter), 1, r.st, path)

Innermost_loop(p, children, i, st, path) ==
    IF i > Len(children) THEN Ret(NoMatch, st)
    ELSE LET r == Innermost_match(p, children[i], st, path)
         IN  IF r.res # NoMatch THEN r
             ELSE Innermost_loop(p, children, i + 1, r.st, path)

\* Innermost_match with the node tried before its children are searched
Innermost_match_preorder(p, v, st, path) ==
    LET r == Pattern_match(p.pattern, v, st, Append(path, 1))
    IN  IF r.res # NoMatch THEN r
        ELSE Innermost_loop(p, Children(v, p.filter), 1, r.st, path)

\* Innermost.match: the children in order, then the node
Innermost_match(p, v, st, path) ==
    IF v.tag # "obj" THEN Ret(Raise("AttributeError"), st)
    ELSE LET c == Innermost_loop(p, Children(v, p.filter), 1, st, path)
         IN  IF c.res # NoMatch THEN c
             ELSE Pattern_match(p.pattern, v, c.st, Append(path, 1))

Pattern_match(p, v, st, path) ==
    LET st0 == Logged(st, Ev("match", path, p.kind, v))
    IN  CASE p.kind = "Any" -> Any_match(p, v, st0, path)
          [] p.kind = "Never" -> Never_match(p, v, st0, path)
          [] p.kind = "EqualTo" -> EqualTo_match(p, v, st0, path)
          [] p.kind = "InstanceOf" -> InstanceOf_match(p, v, st0, path)
          [] p.kind = "Apply" -> Apply_match(p, v, st0, path)
          [] p.kind = "Not" -> Not_match(p, v, st0, path)
          [] p.kind = "CoercedTo" -> CoercedTo_match(p, v, st0, path)
          [] p.kind = "Capture" -> Capture_match(p, v, st0, path)
          [] p.kind = "Replace" -> Replace_match(p, v, st0, path)
          [] p.kind = "AnyOf" -> AnyOf_match(p, v, st0, path)
          [] p.kind = "AllOf" -> AllOf_match(p, v, st0, path)
          [] p.kind = "Length" -> Length_match(p, v, st0, path)
          [] p.kind = "SequenceOf" -> SequenceOf_match(p, v, st0, path)
          [] p.kind = "PatternSequence" ->
                PatternSequence_match(p, v, st0, path)
          [] p.kind = "Object" -> Object_match(p, v, st0, path)
          [] p.kind = "Attrs" -> Attrs_match(p, v, st0, path)
          [] p.kind = "CallableWith" -> CallableWith_match(p, v, st0, path)
          [] p.kind = "Node" -> Node_match(p, v, st0, path)
          [] p.kind = "Topmost" -> Topmost_match(p, v, st0, path)
          [] p.kind = "Innermost" -> Innermost_match(p, v, st0, path)

(***************************************************************************)
(* Records.  instances is the store of the Concrete instances, the i-th    *)
(* the one of identity i: its class, its fields as Annotable.__init__ set  *)
(* them, and the two attributes Concrete computes once when the instance   *)
(* is initialized, the argument tuple and the hash.                        *)
(***************************************************************************)
\* hash(v): equal values have equal hashes; a record answers with the hash
\* of its class and arguments
RECURSIVE PyHash(_)
PyHash(v) ==
    Val(IF v.tag = "obj" THEN "type-and-args" ELSE v.tag,
        IF v.tag = "obj" THEN 0 ELSE v.n,
        v.s,
        [i \in 1..Len(v.items) |-> PyHash(v.items[i])])

\* the validated arguments, in declared order, as keyword arguments
Zip(names, items) ==
    [i \in 1..Len(items) |-> [name |-> names[i], value |-> items[i]]]

ToKwargs(cls, items) == Zip(Argnames(cls), items)

\* Concrete.__args__: tuple(getattr(self, name) for name in __argnames__)
GetAll(fields, names) ==
    [i \in 1..Len(names) |-> DictGet(fields, names[i])]

Concrete_args(cls, fields) == TupleV(GetAll(fields, Argnames(cls)))

\* Concrete.__precomputed_hash__: hash((self.__class__, self.__args__))
Concrete_precomputed_hash(cls, args) ==
    PyHash(TupleV(<<Val("type", 0, cls, <<>>), args>>))

\* Annotable.__init__: the validated arguments are set, then the attributes
\* are initialized
Concrete_init(cls, kwargs, args) ==
    [cls |-> cls,
     fields |-> kwargs,
     args |-> args,
     hash |-> Concrete_precomputed_hash(cls, args)]

Annotable_init(cls, kwargs) ==
    Concrete_init(cls, kwargs, Concrete_args(cls, kwargs))

\* the instance of identity id, as a value
Ref(insts, id) == ObjV(id, insts[id].cls, insts[id].args.items)

\* Signature.validate(*args, **kwargs): the positional arguments are bound
\* to the parameters in order, then every argument is validated
Signature_bound(cls, names, args, kwargs) ==
    IF Len(args) > Len(names) THEN Raise("TypeError")
    ELSE IF \E i \in 1..Len(args) : DictHas(kwargs, names[i])
    THEN Raise("TypeError")
    ELSE Signature_validate(cls, Zip(names, args) \o kwargs)

Signature_bind(cls, args, kwargs) ==
    Signature_bound(cls, Argnames(cls), args, kwargs)

\* the outcome of an operation on the store
Out(r, insts) == [res |-> r, instances |-> insts]

\* Base.__create__(**kwargs): a new instance, initialized
Base_create(cls, validated, insts) ==
    IF IsRaise(validated) THEN Out(validated, insts)
    ELSE Out(ObjV(Len(insts) + 1, cls, validated.items),
             Append(insts, Annotable_init(cls, ToKwargs(cls, validated.items))))

\* Annotable.__create__(*args, **kwargs)
Annotable___create__(cls, args, kwargs, insts) ==
    Base_create(cls, Signature_bind(cls, args, kwargs), insts)

\* Annotable.__recreate__(kwargs): no binding of positional arguments
Annotable___recreate__(cls, kwargs, insts) ==
    Base_create(cls, Signature_validate(cls, kwargs), insts)

\* Concrete___equals__ comparing the first argument only
Concrete___equals___first(insts, x, y) ==
    PyEq(insts[x].args.items[1], insts[y].args.items[1])

\* Concrete.__equals__: self.__args__ == other.__args__
Concrete___equals__(insts, x, y) == PyEq(insts[x].args, insts[y].args)

\* Comparable.__eq__: the same object, or an object of the same type that
\* __equals__ it
Comparable___eq__(insts, x, y) ==
    IF x = y THEN TRUE
    ELSE IF insts[x].cls # insts[y].cls THEN FALSE
    ELSE Concrete___equals__(insts, x, y)

\* Concrete.__hash__
Concrete___hash__(insts, x) == insts[x].hash

\* dict.update
RECURSIVE DictUpdate(_, _)
DictUpdate(d, other) ==
    IF other = <<>> THEN d
    ELSE DictUpdate(DictSet(d, other[1].name, other[1].value), Tail(other))

\* Concrete_copy setting the overrides on the instance itself
Concrete_copy_inplace(insts, x, overrides) ==
    LET cls == insts[x].cls
        kwargs == DictUpdate(ToKwargs(cls, insts[x].args.items), overrides)
        validated == Signature_validate(cls, kwargs)
    IN  IF IsRaise(validated) THEN Out(validated, insts)
        ELSE Out(ObjV(x, cls, validated.items),
                 [insts EXCEPT ![x] =
                    Annotable_init(cls, ToKwargs(cls, validated.items))])

\* Concrete.copy(**overrides)
Concrete_copy(insts, x, overrides) ==
    LET cls == insts[x].cls
        kwargs == DictUpdate(ToKwargs(cls, insts[x].args.items), overrides)
    IN  Annotable___recreate__(cls, kwargs, insts)

\* Concrete___reduce__ with the last argument left out of the state
Concrete___reduce___short(insts, x) ==
    LET state == ToKwargs(insts[x].cls, insts[x].args.items)
    IN  [func |-> "__recreate__", cls |-> insts[x].cls,
         state |-> SubSeq(state, 1, Len(state) - 1)]

\* Concrete.__reduce__: (self.__recreate__, (state,))
Concrete___reduce__(insts, x) ==
    [func |-> "__recreate__", cls |-> insts[x].cls,
     state |-> ToKwargs(insts[x].cls, insts[x].args.items)]

(***************************************************************************)
(* The inputs of the model.                                                *)
(***************************************************************************)
Atoms == {IntV(k) : k \in 0..MaxInt} \cup {StrV("last"), None}

RECURSIVE SeqsUpTo(_, _)
SeqsUpTo(S, n) ==
    IF n = 0 THEN {<<>>}
    ELSE LET shorter == SeqsUpTo(S, n - 1)
         IN  shorter \cup {Append(q, a) : q \in shorter, a \in S}

Lists == {ListV(q) : q \in SeqsUpTo(Atoms, MaxLen)}

\* the contexts a top-level match starts from: empty or pre-seeded
SeedContexts ==
    {EmptyContext,
     [EmptyContext EXCEPT !["x"] = StrV("seeded"), !["_"] = StrV("seeded")]}

\* the identities of the objects given as inputs; a constructed object gets
\* a later one
Rec1 == ObjV(1, "Rec", <<IntV(1), IntV(0)>>)

Rec2 == ObjV(2, "Rec", <<IntV(1), IntV(2)>>)

Pair3 == ObjV(3, "Pair", <<IntV(1), StrV("last")>>)

Pair4 == ObjV(4, "Pair", <<Pair3, IntV(2)>>)

Objects == {Rec1, Rec2, Pair3, Pair4}

FirstFree == Cardinality(Objects) + 1

\* the store the records of the model start from: the objects above, each
\* constructed from its arguments
InitialInstances ==
    [i \in 1..Cardinality(Objects) |->
        LET o == CHOOSE x \in Objects : x.n = i
        IN  Annotable_init(o.s, ToKwargs(o.s, o.items))]

\* a constructor call
Call3(cls, args, kwargs) == [cls |-> cls, args |-> args, kwargs |-> kwargs]

Given(name, v) == [name |-> name, value |-> v]

\* the trees drawn for the tree searches: Rec leaves under Pair nodes, the
\* root of identity 1 and the children of the node n of identities 2n, 2n+1
RECURSIVE TreesUpTo(_)
TreesUpTo(d) ==
    IF d = 0
    THEN {ObjV(0, "Rec", <<IntV(1), IntV(0)>>), ObjV(0, "Rec", <<IntV(2), IntV(0)>>)}
    ELSE LET below == TreesUpTo(d - 1)
         IN  below \cup {ObjV(0, "Pair", <<x, y>>) : x \in below, y \in below}

RECURSIVE Labelled(_, _)
Labelled(t, n) ==
    ObjV(n, t.s,
         [i \in 1..Len(t.items) |->
            IF t.items[i].tag = "obj"
            THEN Labelled(t.items[i], 2 * n + i - 1)
            ELSE t.items[i]])

Trees == {Labelled(t, 1) : t \in TreesUpTo(MaxDepth)}

\* the patterns searched for
Searchers ==
    {TypeObj("Rec"), Never, Any, Capture("x", InstanceOf("Pair")),
     Object(TypeObj("Rec"), <<IntV(2)>>, <<>>),
     Replace(Object(TypeObj("Rec"), <<IntV(1)>>, <<>>), Just(IntV(0))),
     Object(TypeObj("Pair"), <<TypeObj("Rec")>>, <<>>)}

Filters == {"", "Pair"}

\* the functions and the arguments drawn for Call
CallFuncs == {"collect", "add"}

CallArgItems ==
    {IntV(1), Just(IntV(2)), Variable("x"), Callable("value"),
     Call("add", <<IntV(1), Variable(Underscore)>>, <<>>)}

CallArgs ==
    {<<>>} \cup {<<a>> : a \in CallArgItems}
           \cup {<<a, b>> : a \in CallArgItems, b \in CallArgItems}

CallKwargs == {<<>>, <<Given("k", Variable("y"))>>, <<Given("k", IntV(0))>>}

\* the overrides drawn for copy
Overrides ==
    {<<>>, <<Given("a", IntV(5))>>, <<Given("b", IntV(2))>>,
     <<Given("a", StrV("last"))>>, <<Given("b", None)>>,
     <<Given("a", IntV(2)), Given("b", IntV(1))>>,
     <<Given("left", IntV(2))>>, <<Given("right", StrV("last"))>>}

ConstructorCalls ==
    {Call3("Rec", <<>>, <<>>),
     Call3("Rec", <<IntV(1)>>, <<>>),
     Call3("Rec", <<IntV(2)>>, <<>>),
     Call3("Rec", <<StrV("last")>>, <<>>),
     Call3("Rec", <<IntV(1), IntV(2)>>, <<>>),
     Call3("Rec", <<IntV(1), StrV("last")>>, <<>>),
     Call3("Rec", <<IntV(1), IntV(2), IntV(0)>>, <<>>),
     Call3("Rec", <<>>, <<Given("a", IntV(1))>>),
     Call3("Rec", <<>>, <<Given("b", IntV(2))>>),
     Call3("Rec", <<>>, <<Given("b", IntV(2)), Given("a", IntV(1))>>),
     Call3("Rec", <<IntV(1)>>, <<Given("b", IntV(0))>>),
     Call3("Rec", <<IntV(1)>>, <<Given("a", IntV(2))>>),
     Call3("Rec", <<IntV(1)>>, <<Given("zz", IntV(2))>>),
     Call3("Pair", <<IntV(1)>>, <<>>),
     Call3("Pair", <<IntV(1), IntV(0)>>, <<>>),
     Call3("Pair", <<IntV(1), StrV("last")>>, <<>>),
     Call3("Pair", <<>>, <<Given("left", IntV(1)), Given("right", IntV(0))>>)}

\* the patterns drawn as the operands of the combinators
Leaves ==
    {Any, Never, EqualTo(IntV(1)), InstanceOf("int"), Apply("inc"),
     Capture("x", Any), Capture("y", InstanceOf("int")),
     Replace(Any, Just(None)), Replace(InstanceOf("int"), Just(IntV(0))),
     Replace(Any, Just(TupleV(<<>>)))}

Scalars == Atoms \cup {ListV(<<>>), ListV(<<IntV(1)>>)}

\* the matchers and the replacers drawn for Replace
Matchers ==
    {Any, Never, EqualTo(IntV(1)), InstanceOf("int"), Apply("inc"),
     Capture("x", Any), Capture("x", Apply("inc"))}

Builders ==
    {Just(None), Just(IntV(0)), Variable("x"), Variable("y"),
     Variable(Underscore), Factory("value"), Factory("withx")}

\* the item patterns drawn for SequenceOf
Items ==
    {Any, TypeObj("int"), IntV(1), Capture("x", InstanceOf("int")),
     Replace(InstanceOf("int"), Just(IntV(0)))}

\* the length parameters drawn for SequenceOf: exactly, at_least, at_most
LengthArgs ==
    {<<Nil, Nil, Nil>>, <<Nil, 1, Nil>>, <<Nil, Nil, 2>>, <<Nil, 1, 2>>}
    \cup {<<n, Nil, Nil>> : n \in 0..MaxLen}
    \cup {<<Nil, n, n>> : n \in 0..MaxLen}

\* the wildcard slot written `name @ ...`
CapturedWildcard(name) == Capture(name, SequenceOf(Any, "tuple", Nil, Nil, Nil))

\* the sequences drawn as the leading patterns of a pattern sequence
Leads == {<<>>, <<IntV(1)>>, <<TypeObj("int")>>, <<IntV(1), TypeObj("int")>>}

Literals == {StrV("last"), IntV(2)}

\* the patterns drawn to follow a wildcard slot that another slot follows
Followers == {IntV(1), TypeObj("int")}

OtherLists ==
    {<<>>, <<Ellipsis>>, <<IntV(1), Ellipsis>>, <<Ellipsis, IntV(1), IntV(2)>>,
     <<IntV(1), TypeObj("int")>>, <<TypeObj("int")>>,
     <<Capture("x", Any), IntV(1)>>}

\* the input of the documented example, [1, 2, 3, 4, "last"]
ExampleInput ==
    ListV(<<IntV(1), IntV(2), IntV(3), IntV(4), StrV("last")>>)

SequenceInputs ==
    Lists \cup {ExampleInput, TupleV(<<>>), TupleV(<<IntV(1), StrV("last")>>)}

\* the attribute patterns drawn for Object and the argument patterns drawn
\* for Node
AttrPatterns ==
    {Any, Never, TypeObj("int"), IntV(1), Apply("inc"), Capture("x", Any),
     Replace(Any, Just(IntV(0)))}

\* the each_arg patterns of a Node: the above, and one that matches and
\* changes some arguments only
NodePatterns == AttrPatterns \cup {Replace(InstanceOf("int"), Just(IntV(0)))}

AttrNames == {"a", "b", "left", "zz"}

Kw(name, p) == [name |-> name, pattern |-> p]

\* two keyword arguments, one of which may name an attribute the value does
\* not have
PairNames == {"a", "left", "zz"}

PairPatterns == {Any, Never, Apply("inc")}

KwPairs ==
    {<<Kw(n, p), Kw(m, q)>> :
        n \in PairNames, m \in PairNames \ {"zz"},
        p \in PairPatterns, q \in PairPatterns}
    \cup {<<Kw(n, p), Kw("zz", q)>> :
              n \in PairNames \ {"zz"}, p \in PairPatterns,
              q \in PairPatterns}

ObjectArgs ==
    {<< <<p>>, <<>> >> : p \in AttrPatterns}
    \cup {<< <<p, q>>, <<>> >> : p \in AttrPatterns, q \in AttrPatterns}
    \cup {<< <<>>, <<Kw(n, p)>> >> : n \in AttrNames, p \in AttrPatterns}
    \cup {<< <<p>>, <<Kw("b", q)>> >> : p \in AttrPatterns, q \in AttrPatterns}
    \cup {<< <<>>, kw >> : kw \in KwPairs}
    \cup {<< <<p>>, <<Kw("zz", q)>> >> : p \in PairPatterns, q \in PairPatterns}

\* the keyword arguments drawn for Attrs
AttrsFields ==
    {<<Kw(n, p)>> : n \in AttrNames, p \in AttrPatterns} \cup KwPairs

\* the values drawn for Attrs: objects and values without attributes
AttrsInputs == Objects \cup {IntV(1), None}

\* the callables drawn for CallableWith, and the argument patterns
KeywordOnly ==
    {<<>>, <<TRUE>>, <<FALSE>>, <<TRUE, FALSE>>, <<TRUE, TRUE>>}

Callables ==
    {FuncV(n, va, kw) : n \in 0..MaxInt, va \in BOOLEAN, kw \in KeywordOnly}

ArgPatterns == SeqsUpTo({InstanceOf("int")}, MaxInt)

\* the annotations drawn for from_typehint: types, and the generic shapes
\* over them
BaseAnnots == {TypeObj("int"), TypeObj("Num"), AnyType}

Composites(S) ==
    {Alias("Union", <<t, NoneType>>) : t \in S}
    \cup {Alias("Union", <<t, u>>) : t \in S, u \in S}
    \cup {Alias("Union", <<t, u, NoneType>>) : t \in S, u \in S}
    \cup {Alias("Annotated", <<t, InstanceOf("int")>>) : t \in S}
    \cup {CallableAlias(TRUE, <<t>>, u) : t \in S, u \in S}
    \cup {CallableAlias(FALSE, <<>>, AnyType)}
    \cup {Alias("Tuple", <<t, u>>) : t \in S, u \in S}
    \cup {Alias("Tuple", <<t, Ellipsis>>) : t \in S}
    \cup {Alias("Sequence", <<t>>) : t \in S}
    \cup {Alias("Mapping", <<t, u>>) : t \in S, u \in S}
    \cup {TypeVar(TRUE, t) : t \in S}
    \cup {TypeVar(TRUE, NoBound), TypeVar(FALSE, NoBound)}
    \cup {GenericAlias(o, <<t>>) : o \in {"Box", "Num"}, t \in S}

Wrapped(S) ==
    {Alias("Union", <<t, NoneType>>) : t \in S}
    \cup {Alias("Annotated", <<t, InstanceOf("int")>>) : t \in S}
    \cup {Alias("Tuple", <<t, Ellipsis>>) : t \in S}
    \cup {Alias("Sequence", <<t>>) : t \in S}
    \cup {TypeVar(TRUE, t) : t \in S}
    \cup {GenericAlias("Box", <<t>>) : t \in S}

RECURSIVE AnnotsUpTo(_)
AnnotsUpTo(d) ==
    IF d = 0 THEN BaseAnnots
    ELSE IF d = 1 THEN BaseAnnots \cup Composites(BaseAnnots)
    ELSE AnnotsUpTo(d - 1) \cup Wrapped(AnnotsUpTo(d - 1))

Annotations == AnnotsUpTo(MaxNesting)

(***************************************************************************)
(* The state machine: one top-level match per action.                      *)
(***************************************************************************)
NoArgs == [exactly |-> Nil, at_least |-> Nil, at_most |-> Nil, lead |-> 0]

Init ==
    /\ pc = "ready"
    /\ op = "none"
    /\ given = NoArgs
    /\ pat = Any
    /\ value = None
    /\ seed \in SeedContexts
    /\ ctx = seed
    /\ res = NoMatch
    /\ log = <<>>
    /\ instances = InitialInstances

\* the state a top-level match starts in
Start(c) == [ctx |-> c, log |-> <<>>, heap |-> FirstFree]

\* match(pat, value, context); g holds the arguments the pattern was
\* constructed from
\* the call returns r: the result, the context and the log are kept
match_return(o, g, p, v, r) ==
    /\ pc' = "done"
    /\ op' = o
    /\ given' = g
    /\ pat' = p
    /\ value' = v
    /\ ctx' = r.st.ctx
    /\ res' = r.res
    /\ log' = r.st.log
    /\ UNCHANGED <<seed, instances>>

match(o, g, p, v) ==
    match_return(o, g, p, v, Pattern_match(p, v, Start(ctx), <<>>))

MatchAllOf ==
    /\ pc = "ready"
    /\ \E p1 \in Leaves, p2 \in Leaves, v \in Scalars :
        match("AllOf", NoArgs, AllOf(<<p1, p2>>), v)

MatchAnyOf ==
    /\ pc = "ready"
    /\ \E p1 \in Leaves, p2 \in Leaves, v \in Scalars :
        match("AnyOf", NoArgs, AnyOf(<<p1, p2>>), v)

\* an AnyOf whose first branch is an AllOf that captures and then goes on
MatchNested ==
    /\ pc = "ready"
    /\ \E c \in {Capture("x", Any), Capture("y", InstanceOf("int"))},
       f \in {Never, EqualTo(IntV(1))},
       p2 \in {Any, Never, Capture("x", Apply("inc"))},
       v \in Scalars :
        match("Nested", NoArgs, AnyOf(<<AllOf(<<c, f>>), p2>>), v)

MatchReplace ==
    /\ pc = "ready"
    /\ \E m \in Matchers, b \in Builders, v \in Scalars :
        match("Replace", NoArgs, Replace(m, b), v)

MatchSequenceOf ==
    /\ pc = "ready"
    /\ \E item \in Items, type \in {"tuple", "list"}, la \in LengthArgs,
       v \in SequenceInputs \cup Atoms :
        /\ (type = "list" \/ item \notin {Any, TypeObj("int")})
              => la = <<Nil, Nil, Nil>>
        /\ match("SequenceOf",
                 [NoArgs EXCEPT !.exactly = la[1], !.at_least = la[2],
                                !.at_most = la[3]],
                 SequenceOf(item, type, la[1], la[2], la[3]), v)

MatchPatternSequence ==
    /\ pc = "ready"
    /\ \/ \E lead \in Leads, lit \in Literals, v \in SequenceInputs :
             match("WildcardSequence", [NoArgs EXCEPT !.lead = Len(lead)],
                   PatternSequence(lead \o <<CapturedWildcard("x"), lit>>), v)
       \/ \E ps \in OtherLists, v \in SequenceInputs :
             match("PatternSequence", NoArgs, PatternSequence(ps), v)
       \/ \E l1 \in Followers, l2 \in Literals, v \in SequenceInputs :
             match("SplitSequence", NoArgs,
                   PatternSequence(<<CapturedWildcard("x"), l1, l2>>), v)

MatchObject ==
    /\ pc = "ready"
    /\ \E cls \in Classes, a \in ObjectArgs, v \in Objects :
        match("Object", NoArgs, Object(TypeObj(cls), a[1], a[2]), v)

MatchAttrs ==
    /\ pc = "ready"
    /\ \E fields \in AttrsFields, v \in AttrsInputs :
        match("Attrs", NoArgs, Attrs(fields), v)

MatchCallableWith ==
    /\ pc = "ready"
    /\ \E args \in ArgPatterns, v \in Callables \cup {IntV(1)} :
        match("CallableWith", NoArgs, CallableWith(args, Any), v)

MatchNode ==
    /\ pc = "ready"
    /\ \E cls \in Classes, p \in NodePatterns, v \in Objects :
        match("Node", NoArgs, Node(TypeObj(cls), p), v)

\* Pattern.from_typehint(annot, allow_coercion)
FromTypehint ==
    /\ pc = "ready"
    /\ \E annot \in Annotations, allow \in BOOLEAN :
        /\ pc' = "done"
        /\ op' = "from_typehint"
        /\ given' = [annot |-> annot, allow_coercion |-> allow]
        /\ pat' = from_typehint(annot, allow)
        /\ UNCHANGED <<value, seed, ctx, res, log, instances>>

\* the caller starts another top-level match, on an empty or pre-seeded
\* context
NewCall ==
    /\ pc \in {"done", "rec"}
    /\ pc' = "ready"
    /\ op' = "none"
    /\ given' = NoArgs
    /\ pat' = Any
    /\ value' = None
    /\ seed' \in SeedContexts
    /\ ctx' = seed'
    /\ res' = NoMatch
    /\ log' = <<>>
    /\ instances' = InitialInstances

\* CoercedTo(T) of a coercible type T, on its own or as the first branch of
\* an AnyOf
MatchCoercedTo ==
    /\ pc = "ready"
    /\ \E target \in CoercibleTypes, wrapped \in BOOLEAN, v \in Scalars :
        match("CoercedTo", [target |-> target, wrapped |-> wrapped],
              IF wrapped THEN AnyOf(<<CoercedTo(target), Capture("x", Any)>>)
              ELSE CoercedTo(target),
              v)

MatchTopmost ==
    /\ pc = "ready"
    /\ \E searcher \in Searchers, filter \in Filters, v \in Trees :
        match("Topmost", NoArgs, Topmost(searcher, filter), v)

MatchInnermost ==
    /\ pc = "ready"
    /\ \E searcher \in Searchers, filter \in Filters, v \in Trees :
        match("Innermost", NoArgs, Innermost(searcher, filter), v)

\* Call(func, *args, **kwargs).make(context)
MakeCall ==
    /\ pc = "ready"
    /\ \E func \in CallFuncs, args \in CallArgs, kwargs \in CallKwargs :
        LET b == Call(func, args, kwargs)
            r == Builder_make(b, Start(ctx), <<>>)
        IN  /\ pc' = "done"
            /\ op' = "make"
            /\ given' = [func |-> func, args |-> args, kwargs |-> kwargs]
            /\ pat' = b
            /\ value' = None
            /\ ctx' = r.st.ctx
            /\ res' = r.res
            /\ log' = r.st.log
            /\ UNCHANGED <<seed, instances>>

\* Call(func, *args0, **kwargs0)(*args, **kwargs)
CallCall ==
    /\ pc = "ready"
    /\ \E func \in CallFuncs, args0 \in CallArgs, kwargs0 \in CallKwargs,
         args \in CallArgs, kwargs \in CallKwargs :
        /\ Len(args0) <= 1 /\ Len(args) <= 1
        /\ LET b == Call(func, args0, kwargs0)
           IN  /\ pc' = "done"
               /\ op' = "call"
               /\ given' = [func |-> func, args0 |-> args0,
                             kwargs0 |-> kwargs0, args |-> args,
                             kwargs |-> kwargs]
               /\ pat' = b
               /\ value' = None
               /\ res' = Call___call__(b, args, kwargs)
               /\ UNCHANGED <<seed, ctx, log, instances>>

\* cls(*args, **kwargs)
Construct ==
    /\ pc \in {"ready", "rec"}
    /\ Len(instances) < MaxInstances
    /\ \E call \in ConstructorCalls :
        LET r == Annotable___create__(call.cls, call.args, call.kwargs,
                                      instances)
        IN  /\ pc' = "rec"
            /\ op' = "create"
            /\ given' = call
            /\ res' = r.res
            /\ instances' = r.instances
            /\ UNCHANGED <<pat, value, seed, ctx, log>>

\* x == y
Compare ==
    /\ pc \in {"ready", "rec"}
    /\ \E x \in 1..Len(instances), y \in 1..Len(instances) :
        /\ pc' = "rec"
        /\ op' = "eq"
        /\ given' = [x |-> x, y |-> y]
        /\ res' = PyBool(Comparable___eq__(instances, x, y))
        /\ UNCHANGED <<pat, value, seed, ctx, log, instances>>

\* hash(x)
Hash ==
    /\ pc \in {"ready", "rec"}
    /\ \E x \in 1..Len(instances) :
        /\ pc' = "rec"
        /\ op' = "hash"
        /\ given' = [x |-> x]
        /\ res' = Concrete___hash__(instances, x)
        /\ UNCHANGED <<pat, value, seed, ctx, log, instances>>

\* x.copy(**overrides), the overrides naming fields of x
Copy ==
    /\ pc \in {"ready", "rec"}
    /\ Len(instances) < MaxInstances
    /\ \E x \in 1..Len(instances), overrides \in Overrides :
        /\ \A i \in 1..Len(overrides) :
              HasAttr(Ref(instances, x), overrides[i].name)
        /\ LET r == Concrete_copy(instances, x, overrides)
           IN  /\ pc' = "rec"
               /\ op' = "copy"
               /\ given' = [x |-> x, overrides |-> overrides]
               /\ res' = r.res
               /\ instances' = r.instances
               /\ UNCHANGED <<pat, value, seed, ctx, log>>

\* pickling: func, (state,) = x.__reduce__(), then func(state)
RoundTrip ==
    /\ pc \in {"ready", "rec"}
    /\ Len(instances) < MaxInstances
    /\ \E x \in 1..Len(instances) :
        LET reduced == Concrete___reduce__(instances, x)
            r == Annotable___recreate__(reduced.cls, reduced.state, instances)
        IN  /\ pc' = "rec"
            /\ op' = "roundtrip"
            /\ given' = [x |-> x]
            /\ res' = r.res
            /\ instances' = r.instances
            /\ UNCHANGED <<pat, value, seed, ctx, log>>

Next ==
    \/ MatchAllOf
    \/ MatchAnyOf
    \/ MatchNested
    \/ MatchReplace
    \/ MatchSequenceOf
    \/ MatchPatternSequence
    \/ MatchObject
    \/ MatchAttrs
    \/ MatchCallableWith
    \/ FromTypehint
    \/ MatchNode
    \/ MatchCoercedTo
    \/ MatchTopmost
    \/ MatchInnermost
    \/ MakeCall
    \/ CallCall
    \/ Construct
    \/ Compare
    \/ Hash
    \/ Copy
    \/ RoundTrip
    \/ NewCall

Spec == Init /\ [][Next]_vars

(***************************************************************************)
(* What the log of the last match tells.                                   *)
(***************************************************************************)
\* some sub-pattern at or below the position path was evaluated
Evaluated(path) ==
    \E i \in 1..Len(log) :
        /\ Len(log[i].path) >= Len(path)
        /\ SubSeq(log[i].path, 1, Len(path)) = path

Writes(k) == {i \in 1..Len(log) : log[i].ev = "write" /\ log[i].key = k}

Last(S) == CHOOSE i \in S : \A j \in S : j <= i

\* the value the last write to k during the match left, or the value the
\* context held before the match
LastWrite(k) == IF Writes(k) = {} THEN seed[k] ELSE log[Last(Writes(k))].val

(***************************************************************************)
(* The claims.                                                             *)
(***************************************************************************)
\* C1: AllOf(p1, p2).match(v, ctx) is p2.match(p1.match(v, ctx), ctx) when p1
\* matches v (p2 gets p1's output, and the context p1 left), and is NoMatch
\* when p1 fails, in which case p2 is not evaluated and the context is the
\* one p1 left.
C1_AllOfThreadsValue ==
    (pc = "done" /\ op = "AllOf") =>
        LET r1 == Pattern_match(pat.patterns[1], value, Start(seed), <<1>>)
            r2 == Pattern_match(pat.patterns[2], r1.res, Start(r1.st.ctx), <<2>>)
        IN  IF IsRaise(r1.res) THEN TRUE
            ELSE IF r1.res = NoMatch
            THEN res = NoMatch /\ ctx = r1.st.ctx /\ ~Evaluated(<<2>>)
            ELSE res = r2.res /\ ctx = r2.st.ctx /\ Evaluated(<<2>>)

\* p1 turned 0 into 1 and p2, which matches 1 only, matched
C1_Witness ==
    /\ pc = "done" /\ op = "AllOf"
    /\ pat.patterns = <<Apply("inc"), EqualTo(IntV(1))>>
    /\ value = IntV(0)
    /\ res = IntV(1)

\* C2: AnyOf(p1, p2).match(v, ctx) returns p1's result whenever that result
\* is not the NoMatch sentinel, falsy results included, and then does not
\* evaluate p2; it returns p2's result only when p1 returned NoMatch, and
\* NoMatch only when both branches returned NoMatch.
C2_AnyOfFirstSuccess ==
    (pc = "done" /\ op = "AnyOf") =>
        LET r1 == Pattern_match(pat.patterns[1], value, Start(seed), <<1>>)
            r2 == Pattern_match(pat.patterns[2], value, Start(r1.st.ctx), <<2>>)
        IN  IF IsRaise(r1.res) THEN TRUE
            ELSE IF r1.res # NoMatch
            THEN res = r1.res /\ ctx = r1.st.ctx /\ ~Evaluated(<<2>>)
            ELSE /\ res = r2.res
                 /\ Evaluated(<<2>>)
                 /\ (res = NoMatch => r2.res = NoMatch)

\* p1 returned the falsy None, which was returned; p2, a capture, never ran
C2_Witness ==
    /\ pc = "done" /\ op = "AnyOf"
    /\ pat.patterns = <<Replace(Any, Just(None)), Capture("x", Any)>>
    /\ res = None
    /\ ctx["x"] = seed["x"]

\* C3: captures are not rolled back on failure: every key a Capture wrote
\* during a match holds, when the match returns, the value last written to
\* it, also when a later sub-pattern failed and the enclosing pattern
\* returned NoMatch or fell through to another branch; a key nothing wrote
\* holds what it held before.
C3_CapturesNotRolledBack ==
    pc = "done" => \A k \in Keys : ctx[k] = LastWrite(k)

\* a capture of x succeeded, the match as a whole failed, and x still holds
\* the captured value
C3_Witness ==
    /\ pc = "done"
    /\ res = NoMatch
    /\ \E i \in 1..Len(log) :
          /\ log[i].ev = "write" /\ log[i].key = "x"
          /\ ctx["x"] = log[i].val
          /\ ctx["x"] # seed["x"]

\* C4: Replace(matcher, replacer).match(v, ctx): when matcher matches v with
\* result r, the reserved key `_` is bound to r before the builder runs and
\* the value returned is replacer.make(ctx) on the context holding the
\* captures of the match and `_`; when matcher fails, NoMatch is returned, no
\* builder runs and the reserved key is not written.
C4_ReplaceBindsMatchedResult ==
    (pc = "done" /\ op = "Replace") =>
        LET r1 == Pattern_match(pat.pattern, value, Start(seed), <<1>>)
            bound == CtxSet(r1.st.ctx, Underscore, r1.res)
        IN  IF IsRaise(r1.res) THEN TRUE
            ELSE IF r1.res = NoMatch
            THEN /\ res = NoMatch
                 /\ \A i \in 1..Len(log) : log[i].ev # "make"
                 /\ Writes(Underscore) = {}
                 /\ ctx[Underscore] = seed[Underscore]
            ELSE /\ \E i, j \in 1..Len(log) :
                        /\ i < j
                        /\ log[i] = Ev("write", <<>>, Underscore, r1.res)
                        /\ log[j].ev = "make"
                        /\ log[j].val = r1.res
                 /\ res = Builder_make(pat.builder, Start(bound), <<>>).res
                 /\ ctx = bound

\* the matcher turned 1 into 2 and captured it as x; the builder saw 2 both
\* as the current value and as x
C4_Witness ==
    /\ pc = "done" /\ op = "Replace"
    /\ pat = Replace(Capture("x", Apply("inc")), Factory("withx"))
    /\ value = IntV(1)
    /\ res = TupleV(<<IntV(2), IntV(2)>>)

\* the result of the item pattern on each element of the input, each on
\* its own
ItemResults ==
    [i \in 1..Len(value.items) |->
        Pattern_match(pat.item, value.items[i], Start(seed), <<1>>).res]

\* C5: SequenceOf(item) with no container type and no length given: on an
\* iterable input whose every element matches item the result is the tuple
\* of the per-element results in input order; if an element fails item the
\* result is NoMatch; a non-iterable input yields NoMatch and no error.
C5_SequenceOfDefaultTuple ==
    (/\ pc = "done" /\ op = "SequenceOf"
     /\ pat.type = Apply("tuple")
     /\ given = NoArgs) =>
        IF ~IsIterable(value) THEN res = NoMatch
        ELSE IF \E i \in 1..Len(value.items) : ItemResults[i] = NoMatch
        THEN res = NoMatch
        ELSE res = TupleV(ItemResults)

\* a list of three integers matched as the tuple of them
C5_Witness ==
    /\ pc = "done" /\ op = "SequenceOf" /\ given = NoArgs
    /\ pat.item = InstanceOf("int") /\ pat.type = Apply("tuple")
    /\ value = ListV(<<IntV(1), IntV(2), IntV(0)>>)
    /\ res = TupleV(<<IntV(1), IntV(2), IntV(0)>>)

\* C6: SequenceOf(item, exactly=n) matches an input only if it has exactly
\* n elements: an input whose elements all match item but whose length
\* differs from n yields NoMatch.
C6_ExactlyConstrainsLength ==
    (/\ pc = "done" /\ op = "SequenceOf"
     /\ given.exactly # Nil
     /\ IsIterable(value)
     /\ \A i \in 1..Len(value.items) : ItemResults[i] # NoMatch
     /\ Len(value.items) # given.exactly) =>
        res = NoMatch

\* the leading elements of the input match the leading patterns of a
\* leading-wildcard-literal pattern sequence
LeadsMatch ==
    /\ value.tag \in {"list", "tuple"}
    /\ Len(value.items) >= given.lead
    /\ \A i \in 1..given.lead :
          Pattern_match(pat.pattern_window[i][1], value.items[i],
                        Start(seed), <<i>>).res # NoMatch

\* the trailing literal of such a pattern sequence
TrailingLiteral == pat.pattern_window[given.lead + 2][1].value

\* the positions after the leading elements that hold the literal
LiteralAt ==
    {j \in (given.lead + 1)..Len(value.items) :
        PyEq(value.items[j], TrailingLiteral)}

First(S) == CHOOSE i \in S : \A j \in S : i <= j

C8_EmptySequenceMatchesEmptyOnly ==
    (/\ pc = "done" /\ op = "PatternSequence"
     /\ Len(pat.pattern_window) = 0
     /\ value.tag \in {"list", "tuple"}) =>
        IF Len(value.items) = 0 THEN res = ListV(<<>>) ELSE res = NoMatch

\* the empty pattern sequence refused an input of three elements
C8_Witness ==
    /\ pc = "done" /\ op = "PatternSequence"
    /\ Len(pat.pattern_window) = 0
    /\ value.tag = "list" /\ Len(value.items) = 3
    /\ res = NoMatch

\* the result of each named attribute pattern of the last Object match on
\* the attribute it names, each on its own
AttrResult(i) ==
    LET ps == Object_patterns(pat, value)
    IN  Pattern_match(ps[i].value, GetAttr(value, ps[i].name), Start(seed),
                      <<i>>).res

\* the type pattern and every named attribute pattern of the last Object
\* match matched
ObjectMatches ==
    /\ Pattern_match(pat.type, value, Start(seed), <<0>>).res = value
    /\ \A i \in 1..Len(Object_patterns(pat, value)) :
          /\ HasAttr(value, Object_patterns(pat, value)[i].name)
          /\ AttrResult(i) # NoMatch
          /\ ~IsRaise(AttrResult(i))

\* C9: Object(type, ...).match(v, ctx), when the type pattern and every
\* named attribute pattern match, returns the very object v if every matched
\* result equals the attribute's current value, and a newly constructed
\* object of v's class, not v, if a matched result differs.
C9_ObjectSameOrRebuilt ==
    (pc = "done" /\ op = "Object" /\ ObjectMatches) =>
        IF \A i \in 1..Len(Object_patterns(pat, value)) :
              PyEq(AttrResult(i),
                   GetAttr(value, Object_patterns(pat, value)[i].name))
        THEN res = value
        ELSE res.tag = "obj" /\ res.s = value.s /\ res.n # value.n

\* the result of the each_arg pattern of the last Node match on the i-th
\* argument, on its own
ArgResult(i) ==
    Pattern_match(pat.each_arg, value.items[i], Start(seed), <<i>>).res

\* C10: Node(type, each_arg).match(v, ctx), when the type pattern matches
\* v, returns the very object v whenever for every argument of v the
\* each_arg pattern fails or returns a result equal to that argument.
C10_NodeSameWhenUnchanged ==
    (/\ pc = "done" /\ op = "Node"
     /\ Pattern_match(pat.type, value, Start(seed), <<0>>).res = value
     /\ \A i \in 1..Len(value.items) :
           /\ ~IsRaise(ArgResult(i))
           /\ (ArgResult(i) = NoMatch \/ PyEq(ArgResult(i), value.items[i]))) =>
        res = value

(***************************************************************************)
(* Records: construction, equality, hash, copy, reduction.                 *)
(***************************************************************************)
\* the last constructor call gave the field name a value, by position or by
\* keyword
Supplied(name) ==
    \/ \E i \in 1..Len(given.args) :
          i <= Len(Declarations(given.cls)) /\ Declarations(given.cls)[i].name = name
    \/ DictHas(given.kwargs, name)

\* the last constructor call gave nothing but an integer for a
OnlyA ==
    \/ given.kwargs = <<>> /\ Len(given.args) = 1 /\ given.args[1].tag = "int"
    \/ /\ given.args = <<>> /\ Len(given.kwargs) = 1
       /\ given.kwargs[1].name = "a" /\ given.kwargs[1].value.tag = "int"

\* C11: a field declared with an annotation and a class-level value is a
\* defaulted constructor argument, a field declared with an annotation only
\* a required one: a constructor call that leaves a required field out is
\* rejected, an accepted call leaves every defaulted field it did not give
\* at the declared value, and for a: int, b: int = 0 constructing with only
\* a succeeds with b == 0.
C11_DefaultedAndRequiredFields ==
    (pc = "rec" /\ op = "create") =>
        /\ \A i \in 1..Len(Declarations(given.cls)) :
              LET d == Declarations(given.cls)[i]
              IN  /\ (~d.has_value /\ ~Supplied(d.name)) => IsRaise(res)
                  /\ (d.has_value /\ ~Supplied(d.name) /\ ~IsRaise(res)) =>
                        GetAttr(res, d.name) = d.value
        /\ (given.cls = "Rec" /\ OnlyA) =>
              /\ res.tag = "obj" /\ res.s = "Rec"
              /\ GetAttr(res, "b") = IntV(0)
              /\ res.n = Len(instances)
              /\ instances[res.n].fields =
                    <<Given("a", GetAttr(res, "a")), Given("b", IntV(0))>>

\* Rec(1) was constructed and holds b == 0
C11_Witness ==
    /\ pc = "rec" /\ op = "create"
    /\ given = Call3("Rec", <<IntV(1)>>, <<>>)
    /\ res.tag = "obj" /\ res.items = <<IntV(1), IntV(0)>>

\* the instances x and y have the same runtime type and equal constructor
\* arguments, field by field in declared order
SameTypeAndArgs(x, y) ==
    /\ instances[x].cls = instances[y].cls
    /\ \A i \in 1..Len(instances[x].fields) :
          /\ instances[x].fields[i].name = instances[y].fields[i].name
          /\ PyEq(instances[x].fields[i].value, instances[y].fields[i].value)

\* hash((type, argument tuple)) of the instance x, from its fields
HashOfFields(x) ==
    PyHash(TupleV(<<Val("type", 0, instances[x].cls, <<>>),
                    TupleV([i \in 1..Len(instances[x].fields) |->
                               instances[x].fields[i].value])>>))

\* C12: x == y iff x and y have the same runtime type and equal
\* constructor-argument tuples in declared order; x == y implies
\* hash(x) == hash(y); the hash an instance holds is hash((type, argument
\* tuple)) and every hash call returns it.
C12_EqualIffSameTypeAndArgs ==
    /\ (pc = "rec" /\ op = "eq") =>
          (res = PyBool(TRUE) <=> SameTypeAndArgs(given.x, given.y))
    /\ \A x \in 1..Len(instances), y \in 1..Len(instances) :
          Comparable___eq__(instances, x, y) =>
              Concrete___hash__(instances, x) = Concrete___hash__(instances, y)
    /\ \A x \in 1..Len(instances) : instances[x].hash = HashOfFields(x)
    /\ (pc = "rec" /\ op = "hash") => res = HashOfFields(given.x)

\* two distinct instances of the same type with equal arguments compared
\* equal
C12_Witness ==
    /\ pc = "rec" /\ op = "eq"
    /\ given.x # given.y
    /\ SameTypeAndArgs(given.x, given.y)
    /\ res = PyBool(TRUE)
    /\ instances[given.x].hash = instances[given.y].hash

\* the override values the field patterns accept
ValidOverrides(cls, overrides) ==
    \A i \in 1..Len(overrides) :
        \A j \in 1..Len(Declarations(cls)) :
            (/\ Declarations(cls)[j].name = overrides[i].name
             /\ Declarations(cls)[j].typehint = TypeObj("int")) =>
                overrides[i].value.tag = "int"

\* C13: r.copy(**overrides) returns a new instance whose overridden fields
\* hold the override values and whose every other argument equals r's, and
\* no instance that existed before the call is changed by it: r's fields,
\* argument tuple and hash are the same after the call as before, also when
\* an override fails validation (the call raises and constructs nothing).
C13_CopyLeavesOriginalUntouched ==
    [][(pc' = "rec" /\ op' = "copy") =>
          LET x == given'.x
              ov == given'.overrides
          IN  /\ \A i \in 1..Len(instances) : instances'[i] = instances[i]
              /\ IF ValidOverrides(instances[x].cls, ov)
                 THEN /\ res'.tag = "obj"
                      /\ res'.s = instances[x].cls
                      /\ res'.n = Len(instances) + 1
                      /\ Len(instances') = Len(instances) + 1
                      /\ instances'[res'.n].args = TupleV(res'.items)
                      /\ \A i \in 1..Len(instances[x].fields) :
                            LET name == instances[x].fields[i].name
                            IN  instances'[res'.n].fields[i] =
                                  Given(name,
                                        IF DictHas(ov, name)
                                        THEN DictGet(ov, name)
                                        ELSE instances[x].fields[i].value)
                 ELSE IsRaise(res') /\ instances' = instances]_vars

\* Rec(1, 2).copy(a=5) returned a new Rec(5, 2) and Rec(1, 2) is as it was
C13_Witness ==
    /\ pc = "rec" /\ op = "copy"
    /\ given.overrides = <<Given("a", IntV(5))>>
    /\ Ref(instances, given.x) = Rec2
    /\ res.tag = "obj" /\ res.n # given.x
    /\ res.items = <<IntV(5), IntV(2)>>

\* C14: reducing a record r to (recreate, {name: value}) and applying
\* recreate to the mapping succeeds and yields a new instance of r's type
\* equal to r with the same hash.
C14_ReduceRecreateRoundTrip ==
    (pc = "rec" /\ op = "roundtrip") =>
        /\ res.tag = "obj"
        /\ res.n = Len(instances) /\ res.n # given.x
        /\ SameTypeAndArgs(res.n, given.x)
        /\ Comparable___eq__(instances, res.n, given.x)
        /\ instances[res.n].hash = instances[given.x].hash

\* Rec(1, 2) went through the round trip
C14_Witness ==
    /\ pc = "rec" /\ op = "roundtrip"
    /\ Ref(instances, given.x) = Rec2
    /\ res.tag = "obj" /\ res.items = Rec2.items /\ res.n # Rec2.n

(***************************************************************************)
(* Coercion.                                                               *)
(***************************************************************************)
\* C15: CoercedTo(T).match(v, ctx) for a coercible type T returns NoMatch
\* when T's coercion signals CoercionError, lets any other error of the
\* coercion reach the caller, also through an enclosing AnyOf, and returns
\* the coerced value only if it is an instance of T, NoMatch otherwise.
C15_CoercedToCatchesCoercionErrorOnly ==
    (pc = "done" /\ op = "CoercedTo") =>
        LET coerced == Coerce(given.target, value)
            direct == IF coerced = Raise("CoercionError") THEN NoMatch
                      ELSE IF IsRaise(coerced) THEN coerced
                      ELSE IF IsInstance(coerced, given.target) THEN coerced
                      ELSE NoMatch
        IN  IF given.wrapped
            THEN res = (IF direct = NoMatch THEN value ELSE direct)
            ELSE res = direct /\ ctx = seed

\* a coercion failed with an error other than CoercionError and the error
\* left the match
C15_Witness ==
    /\ pc = "done" /\ op = "CoercedTo"
    /\ ~given.wrapped
    /\ Coerce(given.target, value) = Raise("ValueError")
    /\ res = Raise("ValueError")

(***************************************************************************)
(* The Call builder.                                                       *)
(***************************************************************************)
\* what the i-th argument builder of the last Call makes, on its own
Resolved(i) ==
    LET bs == pat.args \o [k \in 1..Len(pat.kwargs) |-> pat.kwargs[k].value]
    IN  Builder_make(bs[i], Start(seed), <<i>>).res

ArgCount == Len(pat.args) + Len(pat.kwargs)

\* the positions of the log where the function of the last Call was called
Invocations == {k \in 1..Len(log) : log[k].ev = "call" /\ log[k].path = <<>>}

\* C16: Call.make(ctx) makes every positional and keyword argument builder
\* against ctx and only then calls the function with what they made (a
\* failing argument builder leaves the function uncalled); calling a Call
\* that holds an argument raises TypeError and gives no builder, calling
\* one that holds none gives a new Call of the same function and the given
\* arguments, the original being as it was.
C16_CallResolvesThenInvokes ==
    /\ (pc = "done" /\ op = "make") =>
          IF \E i \in 1..ArgCount : IsRaise(Resolved(i))
          THEN /\ Invocations = {}
               /\ \E i \in 1..ArgCount :
                     /\ res = Resolved(i)
                     /\ \A j \in 1..(i - 1) : ~IsRaise(Resolved(j))
          ELSE /\ Cardinality(Invocations) = 1
               /\ \A k \in Invocations :
                     /\ log[k].val = TupleV([i \in 1..ArgCount |-> Resolved(i)])
                     /\ \A i \in 1..ArgCount :
                           \E m \in 1..(k - 1) :
                               log[m].ev = "make" /\ log[m].path = <<i>>
                     /\ \A m \in (k + 1)..Len(log) : log[m].ev # "make"
               /\ res = Invoke(pat.func,
                               [i \in 1..Len(pat.args) |-> Resolved(i)],
                               [i \in 1..Len(pat.kwargs) |->
                                  [name |-> pat.kwargs[i].name,
                                   value |-> Resolved(Len(pat.args) + i)]])
    /\ (pc = "done" /\ op = "call") =>
          /\ pat = Call(given.func, given.args0, given.kwargs0)
          /\ IF Len(given.args0) > 0 \/ Len(given.kwargs0) > 0
             THEN res = Raise("TypeError")
             ELSE /\ res.tag = "builder"
                  /\ res.items[1].kind = "Call"
                  /\ res.items[1].func = pat.func
                  /\ Len(res.items[1].args) = Len(given.args)
                  /\ \A i \in 1..Len(given.args) :
                        res.items[1].args[i] = builder(given.args[i])
                  /\ Len(res.items[1].kwargs) = Len(given.kwargs)
                  /\ \A i \in 1..Len(given.kwargs) :
                        res.items[1].kwargs[i] =
                            Given(given.kwargs[i].name,
                                  builder(given.kwargs[i].value))

\* a Call that held a keyword argument was called with a further argument
C16_Witness ==
    /\ pc = "done" /\ op = "call"
    /\ Len(given.args0) = 0 /\ Len(given.kwargs0) = 1
    /\ Len(given.args) = 1
    /\ res = Raise("TypeError")

(***************************************************************************)
(* The tree searches.                                                      *)
(***************************************************************************)
RECURSIVE Flatten(_)
Flatten(seqs) == IF seqs = <<>> THEN <<>> ELSE Head(seqs) \o Flatten(Tail(seqs))

\* the nodes of the tree in pre-order and in post-order, the children a
\* filter leaves out not being part of the tree
RECURSIVE PreOrder(_, _)
PreOrder(t, filter) ==
    <<t>> \o Flatten([i \in 1..Len(Children(t, filter)) |->
                        PreOrder(Children(t, filter)[i], filter)])

RECURSIVE PostOrder(_, _)
PostOrder(t, filter) ==
    Flatten([i \in 1..Len(Children(t, filter)) |->
                PostOrder(Children(t, filter)[i], filter)]) \o <<t>>

\* what the searched pattern gives on the node n, on its own
Found(n) == Pattern_match(pat.pattern, n, Start(seed), <<1>>).res

\* the nodes the searched pattern was tried on during the last search, in
\* the order it was tried on them
Tried ==
    LET tries == SelectSeq(log, LAMBDA e : e.ev = "match" /\ e.path = <<1>>)
    IN  [i \in 1..Len(tries) |-> tries[i].val]

\* the search went through the nodes in the given order and returned what
\* the pattern gave on the first one it matched
FirstIn(order) ==
    LET hits == {i \in 1..Len(order) : Found(order[i]) # NoMatch}
    IN  IF hits = {}
        THEN res = NoMatch /\ Tried = order
        ELSE /\ Tried = SubSeq(order, 1, First(hits))
             /\ res = Found(order[First(hits)])
             /\ res # NoMatch

\* C17: Topmost(p).match(root, ctx) tries p on a node before any of its
\* children, visits children in their listed order and returns p's result
\* on the first node in this pre-order that p matches; NoMatch iff p
\* matches no node.
C17_TopmostPreOrder ==
    (pc = "done" /\ op = "Topmost") => FirstIn(PreOrder(value, pat.filter))

\* the search passed the root and a first subtree of three nodes and found
\* its match in the second subtree
C17_Witness ==
    /\ pc = "done" /\ op = "Topmost"
    /\ Len(Tried) >= 5
    /\ res # NoMatch
    /\ Tried = SubSeq(PreOrder(value, pat.filter), 1, Len(Tried))

\* the depth of the node of identity n, and whether the node of identity a
\* lies on the path from the root to the node of identity n
RECURSIVE Depth(_)
Depth(n) == IF n <= 1 THEN 0 ELSE 1 + Depth(n \div 2)

RECURSIVE IsAncestor(_, _)
IsAncestor(a, n) ==
    IF n <= a THEN FALSE ELSE (n \div 2 = a \/ IsAncestor(a, n \div 2))

\* the node the last search returned the match of
Returned == Tried[Len(Tried)]

AllNodes == PreOrder(value, pat.filter)

\* C18 as claimed: whenever Topmost(p).match(root, ctx) returns the match
\* of a node n, no node of the tree that p matches lies at a strictly
\* smaller depth than n.
C18_TopmostShallowestFirst ==
    (pc = "done" /\ op = "Topmost" /\ res # NoMatch) =>
        \A i \in 1..Len(AllNodes) :
            Found(AllNodes[i]) # NoMatch => Depth(AllNodes[i].n) >= Depth(Returned.n)

\* C18 as amended: whenever Topmost(p).match(root, ctx) returns the match
\* of a node n, p matches no ancestor of n and no node that precedes n in
\* pre-order.
C18_TopmostNoMatchingAncestor ==
    (pc = "done" /\ op = "Topmost" /\ res # NoMatch) =>
        LET nodes == AllNodes
            returned == Returned
        IN  /\ res = Found(returned)
            /\ \A i \in 1..Len(nodes) :
                  (\/ IsAncestor(nodes[i].n, returned.n)
                   \/ \E j \in 1..Len(nodes) : i < j /\ nodes[j] = returned)
                      => Found(nodes[i]) = NoMatch

\* a node at depth 2 was returned while the pattern matches a node at
\* depth 1, in a later subtree
C18_Witness ==
    /\ pc = "done" /\ op = "Topmost" /\ res # NoMatch
    /\ Depth(Returned.n) = 2
    /\ \E i \in 1..Len(AllNodes) :
          Depth(AllNodes[i].n) = 1 /\ Found(AllNodes[i]) # NoMatch

\* C19: Innermost(p).match(root, ctx) searches every child subtree of a
\* node, in listed order, before it tries p on the node, and returns p's
\* result on the first node in this post-order that p matches; a node's own
\* match is returned only if p matches no node below it.
C19_InnermostPostOrder ==
    (pc = "done" /\ op = "Innermost") =>
        /\ FirstIn(PostOrder(value, pat.filter))
        /\ res # NoMatch =>
              LET nodes == AllNodes
                  returned == Returned
              IN  \A i \in 1..Len(nodes) :
                      IsAncestor(returned.n, nodes[i].n)
                          => Found(nodes[i]) = NoMatch

\* the search returned the match of an inner node that has children, whose
\* subtrees it had searched, while the pattern matches the root too
C19_Witness ==
    /\ pc = "done" /\ op = "Innermost" /\ res # NoMatch
    /\ Returned.s = "Pair" /\ Returned.n > 1
    /\ Len(Tried) >= 3
    /\ Found(value) # NoMatch

(***************************************************************************)
(* The split a wildcard slot commits to.                                   *)
(***************************************************************************)
\* the pattern matches the element, on its own
Hit(p, item) == Pattern_match(p, item, Start(seed), <<>>).res # NoMatch

\* the elements the slot at the position i consumed, in order, and the
\* elements it rewound the cursor over
Consumed(i) ==
    LET evs == SelectSeq(log, LAMBDA e : e.ev = "next" /\ e.path = <<i>>)
    IN  [k \in 1..Len(evs) |-> evs[k].val]

Rewound(i) ==
    LET evs == SelectSeq(log, LAMBDA e : e.ev = "rewind" /\ e.path = <<i>>)
    IN  [k \in 1..Len(evs) |-> evs[k].val]

\* the positions of the input whose element the pattern following the
\* wildcard matches
Splits == {j \in 1..Len(value.items) : Hit(pat.pattern_window[2][1], value.items[j])}

\* the splits after which the last slot would match too
GoodSplits ==
    {j \in Splits : /\ j + 1 <= Len(value.items)
                    /\ Hit(pat.pattern_window[3][1], value.items[j + 1])}

\* C20: a wildcard slot consumes elements one at a time and ends its run
\* at the first element the following pattern matches, the cursor rewound
\* over exactly that element, or at exhaustion; if a later slot then fails
\* the match is NoMatch and no other split is tried, even when a longer run
\* would have let every later slot match.
C20_WildcardCommitsToFirstSplit ==
    (pc = "done" /\ op = "SplitSequence") =>
        IF Splits = {}
        THEN /\ Consumed(1) = value.items
             /\ Rewound(1) = <<>>
             /\ res = NoMatch
        ELSE LET k == First(Splits)
             IN  /\ Consumed(1) = SubSeq(value.items, 1, k)
                 /\ Rewound(1) = <<value.items[k]>>
                 /\ ctx["x"] = TupleV(SubSeq(value.items, 1, k - 1))
                 /\ Consumed(2) = <<value.items[k]>>
                 /\ IF k \in GoodSplits
                    THEN res = ListV(SubSeq(value.items, 1, k + 1))
                    ELSE res = NoMatch

\* the match failed at the first split although a later split would have
\* let every slot match
C20_Witness ==
    /\ pc = "done" /\ op = "SplitSequence"
    /\ Splits # {} /\ First(Splits) \notin GoodSplits
    /\ GoodSplits # {}
    /\ res = NoMatch

(***************************************************************************)
(* Object and Attrs: attributes the value does not have.                   *)
(***************************************************************************)
\* the named attribute patterns of the last Object or Attrs match, in the
\* order the match visits them
NamedPatterns ==
    IF op = "Object" THEN Object_patterns(pat, value)
    ELSE [i \in 1..Len(pat.fields) |->
            [name |-> pat.fields[i].name, value |-> pat.fields[i].pattern]]

Absent == {i \in 1..Len(NamedPatterns) : ~HasAttr(value, NamedPatterns[i].name)}

\* the result of the i-th named attribute pattern on its attribute, on its
\* own
NamedResult(i) ==
    Pattern_match(NamedPatterns[i].value,
                  GetAttr(value, NamedPatterns[i].name), Start(seed), <<i>>).res

\* the last match was an Object or Attrs match that names an attribute the
\* value does not have
NamesAbsentAttribute ==
    /\ pc = "done" /\ op \in {"Object", "Attrs"}
    /\ Absent # {}

AttrsMatches ==
    /\ pc = "done" /\ op = "Attrs"
    /\ Absent = {}
    /\ \A i \in 1..Len(NamedPatterns) :
          NamedResult(i) # NoMatch /\ ~IsRaise(NamedResult(i))

\* C22: Attrs(**fields).match(v, ctx), when every named attribute is present
\* and matches, returns a newly synthesized value carrying the updated
\* attributes if at least one matched result differs from the attribute's
\* current value, and the original value v otherwise.
C22_AttrsSameOrSynthesized ==
    AttrsMatches =>
        IF \A i \in 1..Len(NamedPatterns) :
              PyEq(NamedResult(i), GetAttr(value, NamedPatterns[i].name))
        THEN res = value
        ELSE /\ res.tag = "obj" /\ res.s = value.s /\ res.n # value.n
             /\ \A i \in 1..Len(NamedPatterns) :
                   PyEq(GetAttr(res, NamedPatterns[i].name), NamedResult(i))

(***************************************************************************)
(* CallableWith.                                                           *)
(***************************************************************************)
\* the callable declares a keyword-only parameter without a default
HasMandatoryKeywordOnly(f) ==
    \E i \in 1..Len(f.items) : f.items[i] = PyBool(FALSE)

\* the callable accepts exactly Len(args) positional arguments, or at least
\* as many through *args
ArityFits(f, args) ==
    \/ f.n = Len(args)
    \/ f.n < Len(args) /\ f.s = "varargs"

\* C23: CallableWith(args, return_).match(f, ctx) raises MatchError iff the
\* callable f declares a keyword-only parameter without a default; a
\* callable whose keyword-only parameters all have defaults is judged on its
\* positional arity alone.
C23_MatchErrorIffMandatoryKeywordOnly ==
    (pc = "done" /\ op = "CallableWith" /\ IsCallable(value)) =>
        /\ res = Raise("MatchError") <=> HasMandatoryKeywordOnly(value)
        /\ ~HasMandatoryKeywordOnly(value) =>
              IF ArityFits(value, pat.args) THEN IsCallable(res)
              ELSE res = NoMatch

(***************************************************************************)
(* PatternSequence: the cursor.                                            *)
(***************************************************************************)
\* the last match was of a pattern sequence with slots against a sequence
SequenceMatched ==
    /\ pc = "done"
    /\ op \in {"WildcardSequence", "PatternSequence", "SplitSequence"}
    /\ pat.kind = "PatternSequence" /\ Len(pat.pattern_window) > 0
    /\ value.tag \in {"list", "tuple"}

\* what the slots of the last pattern sequence match did with the cursor, in
\* order: an element read, a read at exhaustion, a rewind
CursorEvents ==
    SelectSeq(log, LAMBDA e : Len(e.path) = 1
                              /\ e.ev \in {"next", "stop", "rewind"})

CountOf(evs, k, ev) == Cardinality({j \in 1..k : evs[j].ev = ev})

\* where the cursor is before the k-th cursor event, when every read
\* consumes one element and every rewind gives one back
CursorBefore(evs, k) ==
    CountOf(evs, k - 1, "next") - CountOf(evs, k - 1, "rewind")

CursorDiscipline(evs) ==
    /\ \A k \in 1..Len(evs) :
          /\ evs[k].ev = "next" =>
                /\ CursorBefore(evs, k) < Len(value.items)
                /\ evs[k].val = value.items[CursorBefore(evs, k) + 1]
          /\ evs[k].ev = "stop" => CursorBefore(evs, k) = Len(value.items)
          /\ evs[k].ev = "rewind" =>
                /\ k > 1 /\ evs[k - 1].ev = "next"
                /\ evs[k - 1].path = evs[k].path
                /\ evs[k - 1].val = evs[k].val
          /\ evs[k].ev \in {"stop", "rewind"} =>
                \A j \in (k + 1)..Len(evs) : evs[j].path # evs[k].path
    /\ \A j, k \in 1..Len(evs) : j < k => evs[j].path[1] <= evs[k].path[1]
    /\ \A k \in 1..Len(evs) : evs[k].path[1] \in 1..Len(pat.pattern_window)
    /\ CountOf(evs, Len(evs), "next")
          <= Len(value.items) + Len(pat.pattern_window)

\* C24: PatternSequence.match terminates on every finite input: each read
\* of a slot consumes one further element of the input or finds the cursor
\* exhausted, a rewind gives back only the element just read and is the
\* last thing its slot does with the cursor, the slots are processed once
\* each in order, and the number of elements read is at most the input
\* length plus the number of slots.
C24_PatternSequenceCursorBounded ==
    SequenceMatched => CursorDiscipline(CursorEvents)

\* a wildcard slot read several elements, rewound over the last one, and
\* the next slot read that element again
C24_Witness ==
    /\ SequenceMatched
    /\ \E k \in 3..Len(CursorEvents) :
          /\ CursorEvents[k].ev = "rewind"
          /\ CursorEvents[k - 2].ev = "next"
          /\ k < Len(CursorEvents) /\ CursorEvents[k + 1].ev = "next"
          /\ CursorEvents[k + 1].path # CursorEvents[k].path
    /\ CountOf(CursorEvents, Len(CursorEvents), "next") > Len(value.items)
    /\ res # NoMatch

\* no slot of the last pattern sequence is a wildcard
NoWildcardSlot ==
    \A i \in 1..Len(pat.pattern_window) :
        Uncaptured(pat.pattern_window[i][1]).kind
            \notin {"SequenceOf", "PatternSequence"}

\* C25: a PatternSequence with n >= 1 slots, none of them a wildcard,
\* matches only inputs of exactly n elements: an input with further elements
\* after the n that match yields NoMatch.
C25_NoWildcardExactLength ==
    (SequenceMatched /\ NoWildcardSlot /\ res # NoMatch /\ ~IsRaise(res)) =>
        Len(value.items) = Len(pat.pattern_window)

(***************************************************************************)
(* Object and Node: what a rebuilt value keeps.                            *)
(***************************************************************************)
\* the names of the attribute patterns of the last Object match
NamedByObject ==
    {Object_patterns(pat, value)[i].name :
        i \in 1..Len(Object_patterns(pat, value))}

\* C26: when an Object pattern names only a strict subset of a value's
\* constructor fields and a named field's matched result differs from its
\* current value, the rebuilt object has the matched results for the named
\* fields and the value's current values for all the fields the pattern
\* does not name.
C26_PartialRebuildKeepsUnnamedFields ==
    (/\ pc = "done" /\ op = "Object" /\ ObjectMatches
     /\ \E i \in 1..Len(Argnames(value.s)) :
           Argnames(value.s)[i] \notin NamedByObject
     /\ \E i \in 1..Len(Object_patterns(pat, value)) :
           ~PyEq(AttrResult(i),
                 GetAttr(value, Object_patterns(pat, value)[i].name))) =>
        /\ res.tag = "obj" /\ res.s = value.s
        /\ \A i \in 1..Len(Object_patterns(pat, value)) :
              PyEq(GetAttr(res, Object_patterns(pat, value)[i].name),
                   AttrResult(i))
        /\ \A i \in 1..Len(Argnames(value.s)) :
              Argnames(value.s)[i] \notin NamedByObject =>
                  PyEq(res.items[i], value.items[i])

(***************************************************************************)
(* from_typehint.                                                          *)
(***************************************************************************)
RECURSIVE Coerces(_)

\* the pattern, or a pattern it holds, coerces to a Coercible type
Coerces(p) ==
    CASE p.kind \in {"CoercedTo", "GenericCoercedTo"} -> TRUE
      [] p.kind = "Option" -> Coerces(p.pattern)
      [] p.kind \in {"AnyOf", "AllOf"} ->
            \E i \in 1..Len(p.patterns) : Coerces(p.patterns[i])
      [] p.kind = "CallableWith" ->
            \/ \E i \in 1..Len(p.args) : Coerces(p.args[i])
            \/ Coerces(p.return_)
      [] p.kind \in {"TupleOf", "GenericInstanceOf"} ->
            \E i \in 1..Len(p.fields) : Coerces(p.fields[i])
      [] p.kind = "SequenceOf" -> Coerces(p.item)
      [] p.kind = "MappingOf" -> Coerces(p.key) \/ Coerces(p.value)
      [] OTHER -> FALSE

\* C27: from_typehint(annotation, allow_coercion=False) never produces a
\* coercing pattern for a coercion-capable type, at any nesting depth.
C27_NoCoercionAtAnyDepth ==
    (/\ pc = "done" /\ op = "from_typehint"
     /\ ~given.allow_coercion
     /\ pat.kind # "UsageError") =>
        ~Coerces(pat)

\* the type pattern of the last Node match matched the value and each_arg
\* matched or failed on every argument
NodeTypeMatched ==
    /\ pc = "done" /\ op = "Node"
    /\ Pattern_match(pat.type, value, Start(seed), <<0>>).res = value
    /\ \A i \in 1..Len(value.items) : ~IsRaise(ArgResult(i))

\* the i-th argument the rebuilt value is to have
NewArg(i) ==
    IF ArgResult(i) = NoMatch THEN value.items[i] ELSE ArgResult(i)

\* C28: Node(type, each_arg).match never returns NoMatch because of a
\* child: once the type pattern matches the value, every argument each_arg
\* fails to match is carried over unchanged under its declared name, every
\* argument each_arg matches is replaced by the match result, and the
\* outcome is the original value or a value rebuilt from the complete
\* argument list.
C28_NodeNeverNoMatchFromChild ==
    NodeTypeMatched =>
        /\ res # NoMatch
        /\ IF \A i \in 1..Len(value.items) : ArgResult(i) = NoMatch
           THEN res = value
           ELSE /\ res.tag = "obj" /\ res.s = value.s /\ res.n # value.n
                /\ Len(res.items) = Len(Argnames(value.s))
                /\ \A i \in 1..Len(value.items) :
                      GetAttr(res, Argnames(value.s)[i]) = NewArg(i)

\* each_arg failed on one argument and changed another, and the value was
\* rebuilt with both
C28_Witness ==
    /\ NodeTypeMatched
    /\ \E i \in 1..Len(value.items) : ArgResult(i) = NoMatch
    /\ \E i \in 1..Len(value.items) :
          ArgResult(i) # NoMatch /\ ~PyEq(ArgResult(i), value.items[i])
    /\ res.tag = "obj" /\ res.n # value.n

====
